---- MODULE Spec2Model ----
(***************************************************************************)
(* Model of the stock-data repository layer (src/app/database):            *)
(* the instrument registry (CryptoCurrencyRepository), the price store     *)
(* (CryptoPriceRepository) and the SQLAlchemy sessions they run on.        *)
(*                                                                         *)
(* The committed tables are the variables currencies and prices.  Every    *)
(* repository method is one action, except get_or_create, whose SELECT     *)
(* and whose INSERT+COMMIT are two database round trips and therefore two  *)
(* steps other sessions can interleave with.                               *)
(***************************************************************************)
EXTENDS Integers, Sequences, FiniteSets, TLC

\* ------------------------------------------------------------------ bounds
MaxTime == 1           \* the clock ranges over 0..MaxTime
MaxCurrencySeq == 2    \* values the crypto_currencies id sequence may hand out
MaxTimestamp == 2      \* the price timestamps range over 0..MaxTimestamp
MaxBatch == 2          \* longest batch handed to bulk_create
MaxLimit == 3          \* largest limit handed to get_latest
MaxChunk == 1          \* the chunks of crypto_prices are 0..MaxChunk
MaxSeries == 3         \* longest series handed to calculate_metrics
MaxEntries == 3        \* most days of a short reply of the provider
LongEntries == 11      \* the days of a long reply of the provider
MaxIndicators == 3     \* most ids the computed_indicators sequence hands out
MaxCallers == 3        \* callers that open sessions at the same time
pool_size == 1         \* settings.db_pool_size of the configuration checked
max_overflow == 1      \* settings.db_max_overflow of the configuration checked

\* ------------------------------------------------------------------ inputs
Sessions == {"s1", "s2"}

\* The callers that open a session of their own, and a caller that has not
\* entered its block (or has left it).
Callers == 1..MaxCallers
Outside == [at |-> "outside", block |-> "none", connection |-> FALSE, exit |-> "none"]

\* Strings are sequences of characters, so that str.upper() is computed.
\* The <<symbol, market>> arguments callers pass, in several letter-casings.
PairInputs == { << <<"b", "t", "c">>, <<"u", "s", "d">> >>,
                << <<"B", "T", "c">>, <<"U", "s", "D">> >>,
                << <<"e", "t", "h">>, <<"u", "s", "d">> >> }
NameInputs == { "Bitcoin", "Coin" }
CurrencyIds == 1..MaxCurrencySeq

Timestamps == 0..MaxTimestamp

\* The OHLCV values of a price record.
QuoteA == [open |-> 2, high |-> 4, low |-> 1, close |-> 3, volume |-> 0]
QuoteB == [open |-> 3, high |-> 5, low |-> 2, close |-> 4, volume |-> 7]

Record(currency_id, timestamp, q) ==
    [ currency_id |-> currency_id, timestamp |-> timestamp, open |-> q.open,
      high |-> q.high, low |-> q.low, close |-> q.close, volume |-> q.volume ]

\* The dicts callers hand to create and bulk_create: a series of instrument 1, a
\* second delivery of its first point with other values, and a first point for
\* every other id, the one after the last the sequence hands out included.
PriceRecords ==
    { Record(1, ts, IF ts % 2 = 0 THEN QuoteA ELSE QuoteB) : ts \in Timestamps }
    \cup { Record(1, 0, QuoteB) }
    \cup { Record(c, 0, QuoteA) : c \in 2..(MaxCurrencySeq + 1) }

\* The records batches are made of: the first two points of instrument 1 and the
\* second delivery of the first.
BatchRecords == { r \in PriceRecords : r.currency_id = 1 /\ r.timestamp <= 1 }

RECURSIVE SeqsUpTo(_, _)
SeqsUpTo(S, n) ==
    IF n = 0 THEN { << >> }
    ELSE LET shorter == SeqsUpTo(S, n - 1)
         IN  shorter \cup { Append(b, x) : b \in { c \in shorter : Len(c) = n - 1 }, x \in S }

Batches == SeqsUpTo(BatchRecords, MaxBatch)

\* The values a repository call returns, tagged by their Python type.
None == [none |-> TRUE]
IntVal(n) == [int |-> n]
BoolVal(b) == [bool |-> b]
RowVal(r) == [row |-> r]
RowsVal(rows) == [rows |-> rows]
\* An Optional[...] argument: <<>> when it is None, <<v>> when it is v.
Absent == << >>
Optional(S) == { Absent } \cup { << v >> : v \in S }
NoArgs == [noargs |-> TRUE]

\* ------------------------------------------------------------------ state
VARIABLES
    currencies,     \* committed rows of crypto_currencies
    currency_seq,   \* last value handed out by the crypto_currencies id sequence
    prices,         \* committed rows of crypto_prices
    now,            \* the clock (datetime.utcnow(), func.now())
    pc,             \* per session: "idle", or "create" inside get_or_create
    pending,        \* per session: a flush failed and no rollback was issued
    call,           \* per session: the arguments of the get_or_create in progress
    interleaved,    \* per session: another session acted during its get_or_create
    last,           \* the most recent repository call and its outcome
    compressed,     \* the chunks of crypto_prices that are compressed
    dropped,        \* the chunks of crypto_prices the retention policy has dropped
    time_series,    \* the series handed to CurrencyDataProcessor.calculate_metrics
    metrics,        \* what calculate_metrics returned or raised
    raw_data,       \* what the provider call returns or raises
    response,       \* what process_response returned or raised
    http,           \* the HTTP response of the route called, with the provider call made
    scopes,         \* per caller: where it is in its SessionLocal() block
    indicators      \* computed_indicators: its committed rows, the last id of its sequence

\* The variables the repository methods never touch.
\* The variables of the provider-facing side.
api == << raw_data, response, http >>

\* The callers' session blocks and the indicator table.
more == << scopes, indicators >>

others == << compressed, dropped, time_series, metrics, api, more >>

vars == << currencies, currency_seq, prices, now, pc, pending, call, interleaved,
           last, compressed, dropped, time_series, metrics, api, more >>

\* -------------------------------------------------------------- str.upper()
upper_char(c) ==
    CASE c = "b" -> "B"
      [] c = "t" -> "T"
      [] c = "c" -> "C"
      [] c = "e" -> "E"
      [] c = "h" -> "H"
      [] c = "u" -> "U"
      [] c = "s" -> "S"
      [] c = "d" -> "D"
      [] OTHER -> c

upper(str) == [i \in 1..Len(str) |-> upper_char(str[i])]

\* ------------------------------------------------------ crypto_currencies
\* The rows matching the filter of get_by_symbol_and_market.
get_by_symbol_and_market_raw(table, symbol, market) ==
    { r \in table : r.symbol = symbol /\ r.market = market }

\* The same filter, restricted to the active rows.
get_by_symbol_and_market_active(table, symbol, market) ==
    { r \in table : r.symbol = upper(symbol) /\ r.market = upper(market) /\ r.is_active }

get_by_symbol_and_market(table, symbol, market) ==
    { r \in table : r.symbol = upper(symbol) /\ r.market = upper(market) }

get_by_id(table, currency_id) == { r \in table : r.id = currency_id }

\* UniqueConstraint("symbol", "market", name="uq_symbol_market")
uq_symbol_market_off(table, symbol, market) == FALSE

uq_symbol_market(table, symbol, market) ==
    \E r \in table : r.symbol = symbol /\ r.market = market

\* The row CryptoCurrencyRepository.create builds; id, created_at and updated_at
\* come from the database (sequence, server_default=func.now()).
CryptoCurrency(id, symbol, name, market, is_active, t) ==
    [ id |-> id, symbol |-> upper(symbol), name |-> name, market |-> upper(market),
      is_active |-> is_active, created_at |-> t, updated_at |-> t ]

\* Every action of session s interferes with the get_or_create calls in progress
\* on the other sessions.
Interfere(s) ==
    [ t \in Sessions |-> IF t # s /\ pc[t] = "create" THEN TRUE ELSE interleaved[t] ]

\* What the caller of a repository method sees: the exception raised ("ok" when
\* none) and the value returned; via tells which statement of the method ended it.
Result(op, via, outcome, value) ==
    [ op |-> op, via |-> via, outcome |-> outcome, value |-> value, args |-> NoArgs ]

\* The same, for the calls whose arguments the properties below read.
ResultOf(op, via, args, outcome, value) ==
    [ op |-> op, via |-> via, outcome |-> outcome, value |-> value, args |-> args ]

PendingRollbackError == "PendingRollbackError"
IntegrityError == "IntegrityError"

\* No provider call, no processing and no route call has happened.
ApiIdle == raw_data = None /\ response = None /\ http = None

\* No caller is inside a session block and no indicator is stored.
MoreIdle == scopes = [c \in Callers |-> Outside] /\ indicators = [rows |-> {}, seq |-> 0]

Init ==
    /\ currencies = {}
    /\ currency_seq = 0
    /\ prices = {}
    /\ now = 0
    /\ pc = [s \in Sessions |-> "idle"]
    /\ pending = [s \in Sessions |-> FALSE]
    /\ call = [s \in Sessions |-> NoArgs]
    /\ interleaved = [s \in Sessions |-> FALSE]
    /\ last = Result("none", "-", "ok", None)
    /\ compressed = {}
    /\ dropped = {}
    /\ time_series = << >>
    /\ metrics = None
    /\ ApiIdle
    /\ MoreIdle

\* The clock advances.
Tick ==
    /\ now < MaxTime
    /\ now' = now + 1
    /\ UNCHANGED << currencies, currency_seq, prices, pc, pending, call, interleaved,
                    last, others >>

\* get_db's finally: db.close() ends the session's transaction; the caller's next
\* request runs on a fresh session.
close(s) ==
    /\ pc[s] = "idle"
    /\ pending' = [pending EXCEPT ![s] = FALSE]
    /\ interleaved' = Interfere(s)
    /\ last' = Result("close", "-", "ok", None)
    /\ UNCHANGED << currencies, currency_seq, prices, now, pc, call, others >>

\* INSERT INTO crypto_currencies ... ; COMMIT -- the effect of
\* CryptoCurrencyRepository.create on the table: the new table, or the table
\* unchanged when uq_symbol_market rejects the row.
insert_currency(table, id, symbol, name, market, is_active, t) ==
    IF uq_symbol_market(table, upper(symbol), upper(market))
    THEN table
    ELSE table \cup { CryptoCurrency(id, symbol, name, market, is_active, t) }

\* CryptoCurrencyRepository.create, as get_or_create (its only caller) calls it.
DoCreate(op, s, symbol, name, market, is_active) ==
    LET args == [symbol |-> symbol, market |-> market, interleaved |-> interleaved[s]]
        id == currency_seq + 1
        conflict == uq_symbol_market(currencies, upper(symbol), upper(market))
    IN  IF pending[s]
        THEN /\ last' = ResultOf(op, "insert", args, PendingRollbackError, None)
             /\ UNCHANGED << currencies, currency_seq, pending >>
        ELSE /\ currency_seq < MaxCurrencySeq
             /\ currency_seq' = id
             /\ currencies' = insert_currency(currencies, id, symbol, name, market,
                                              is_active, now)
             /\ pending' = [pending EXCEPT ![s] = conflict]
             /\ last' = IF conflict
                        THEN ResultOf(op, "insert", args, IntegrityError, None)
                        ELSE ResultOf(op, "insert", args, "ok", IntVal(id))

\* get_or_create, first round trip: the SELECT of get_by_symbol_and_market.
\* A row found is returned at once; otherwise the call goes on to create.
get_or_create_lookup(s, symbol, name, market) ==
    LET found == get_by_symbol_and_market(currencies, symbol, market)
        args == [symbol |-> symbol, market |-> market, interleaved |-> FALSE]
    IN  /\ pc[s] = "idle"
        /\ IF pending[s]
           THEN /\ last' = ResultOf("get_or_create", "select", args, PendingRollbackError, None)
                /\ interleaved' = Interfere(s)
                /\ UNCHANGED << pc, call >>
           ELSE IF found # {}
           THEN LET row == CHOOSE r \in found : TRUE
                IN  /\ last' = ResultOf("get_or_create", "select", args, "ok", IntVal(row.id))
                    /\ interleaved' = Interfere(s)
                    /\ UNCHANGED << pc, call >>
           ELSE /\ pc' = [pc EXCEPT ![s] = "create"]
                /\ call' = [call EXCEPT ![s] = [symbol |-> symbol, name |-> name,
                                                 market |-> market]]
                /\ interleaved' = [Interfere(s) EXCEPT ![s] = FALSE]
                /\ last' = Result("get_or_create_select", "select", "ok", None)
        /\ UNCHANGED << currencies, currency_seq, prices, now, pending, others >>

\* get_or_create, second round trip: CryptoCurrencyRepository.create.  There is
\* no except clause: an IntegrityError leaves get_or_create as it was raised.
get_or_create_insert(s) ==
    /\ pc[s] = "create"
    /\ DoCreate("get_or_create", s, call[s].symbol, call[s].name, call[s].market, TRUE)
    /\ pc' = [pc EXCEPT ![s] = "idle"]
    /\ call' = [call EXCEPT ![s] = NoArgs]
    /\ interleaved' = [Interfere(s) EXCEPT ![s] = FALSE]
    /\ UNCHANGED << prices, now, others >>

\* The UPDATE that CryptoCurrencyRepository.update commits: name and is_active
\* when given, and updated_at always.
update_row(r, name, is_active, t) ==
    [ r EXCEPT !.name = IF name # Absent THEN name[1] ELSE @,
               !.is_active = IF is_active # Absent THEN is_active[1] ELSE @,
               !.updated_at = t ]

update_rows(table, currency_id, name, is_active, t) ==
    { IF r.id = currency_id THEN update_row(r, name, is_active, t) ELSE r : r \in table }

\* CryptoCurrencyRepository.update
update(s, currency_id, name, is_active) ==
    LET found == get_by_id(currencies, currency_id)
    IN  /\ pc[s] = "idle"
        /\ IF pending[s]
           THEN /\ last' = Result("update", "-", PendingRollbackError, None)
                /\ UNCHANGED currencies
           ELSE IF found = {}
           THEN /\ last' = Result("update", "-", "ok", None)
                /\ UNCHANGED currencies
           ELSE /\ currencies' = update_rows(currencies, currency_id, name, is_active, now)
                /\ last' = Result("update", "-", "ok", IntVal(currency_id))
        /\ interleaved' = Interfere(s)
        /\ UNCHANGED << currency_seq, prices, now, pc, pending, call, others >>

\* The UPDATE that CryptoCurrencyRepository.delete commits.
hard_delete(table, currency_id, t) == { r \in table : r.id # currency_id }

soft_delete(table, currency_id, t) ==
    { IF r.id = currency_id THEN [r EXCEPT !.is_active = FALSE, !.updated_at = t] ELSE r :
        r \in table }

\* CryptoCurrencyRepository.delete
delete(s, currency_id) ==
    LET args == [currency_id |-> currency_id]
        found == get_by_id(currencies, currency_id)
    IN  /\ pc[s] = "idle"
        /\ IF pending[s]
           THEN /\ last' = ResultOf("delete", "-", args, PendingRollbackError, None)
                /\ UNCHANGED currencies
           ELSE IF found = {}
           THEN /\ last' = ResultOf("delete", "-", args, "ok", BoolVal(FALSE))
                /\ UNCHANGED currencies
           ELSE /\ currencies' = soft_delete(currencies, currency_id, now)
                /\ last' = ResultOf("delete", "-", args, "ok", BoolVal(TRUE))
        /\ interleaved' = Interfere(s)
        /\ UNCHANGED << currency_seq, prices, now, pc, pending, call, others >>

\* The <<name, is_active>> arguments callers pass to update: nothing, a name, a
\* flag, or both.
UpdateInputs ==
    { << Absent, Absent >>, << << "Coin" >>, Absent >>, << Absent, << TRUE >> >>,
      << Absent, << FALSE >> >>, << << "Bitcoin" >>, << FALSE >> >> }

NextRegistry ==
    \/ Tick
    \/ \E s \in Sessions : close(s)
    \/ \E s \in Sessions, pair \in PairInputs, name \in NameInputs :
            get_or_create_lookup(s, pair[1], name, pair[2])
    \/ \E s \in Sessions : get_or_create_insert(s)
    \/ \E s \in Sessions, currency_id \in CurrencyIds, input \in UpdateInputs :
            update(s, currency_id, input[1], input[2])
    \/ \E s \in Sessions, currency_id \in CurrencyIds : delete(s, currency_id)

Spec == Init /\ [][NextRegistry]_vars

\* ----------------------------------------------------------- crypto_prices
\* UniqueConstraint("currency_id", "timestamp", name="uq_currency_timestamp")
uq_currency_timestamp_off(table, currency_id, timestamp) == FALSE

uq_currency_timestamp(table, currency_id, timestamp) ==
    \E p \in table : p.currency_id = currency_id /\ p.timestamp = timestamp

\* ForeignKey("crypto_currencies.id")
fk_currency(currency_id) == \E r \in currencies : r.id = currency_id

\* CryptoPrice(**record): the row's columns are the record's values.  The columns
\* id and created_at, which the database assigns and no modelled query reads, are
\* left out.
CryptoPrice_swapped(record) ==
    [ currency_id |-> record.currency_id, timestamp |-> record.timestamp,
      open |-> record.open, high |-> record.low, low |-> record.high,
      close |-> record.close, volume |-> record.volume ]

CryptoPrice(record) ==
    [ currency_id |-> record.currency_id, timestamp |-> record.timestamp,
      open |-> record.open, high |-> record.high, low |-> record.low,
      close |-> record.close, volume |-> record.volume ]

\* create_hypertable('crypto_prices', 'timestamp', chunk_time_interval => 7 days):
\* the chunk a row goes to is a function of its timestamp alone.
chunk_time_interval == 7

chunk_of(timestamp) == timestamp \div chunk_time_interval

\* Whether the hypertable takes a row for chunk c.  It creates the chunk when there
\* is none, a compressed chunk takes rows like an open one, and nothing records
\* that a chunk of that interval was dropped before.
chunk_insertable_open_only(compressed_chunks, dropped_chunks, c) ==
    c \notin compressed_chunks

chunk_insertable(compressed_chunks, dropped_chunks, c) == TRUE

\* The INSERTs of one transaction, row by row from row i on: txn is the table as
\* the transaction sees it.  The first row that violates a constraint aborts it.
RECURSIVE insert_rows(_, _, _)
insert_rows(txn, records, i) ==
    IF i > Len(records)
    THEN [ok |-> TRUE, rows |-> txn]
    ELSE LET row == CryptoPrice(records[i])
         IN  IF \/ uq_currency_timestamp(txn, row.currency_id, row.timestamp)
                \/ ~fk_currency(row.currency_id)
                \/ ~chunk_insertable(compressed, dropped, chunk_of(row.timestamp))
             THEN [ok |-> FALSE, rows |-> txn]
             ELSE insert_rows(txn \cup {row}, records, i + 1)

\* The table after the transaction: COMMIT publishes its rows, a failed flush
\* rolls all of them back.
commit_partial(table, records) == insert_rows(table, records, 1).rows

commit_upsert(table, records) ==
    { p \in table : \A i \in 1..Len(records) :
                        \/ p.currency_id # records[i].currency_id
                        \/ p.timestamp # records[i].timestamp }
        \cup { CryptoPrice(records[i]) : i \in 1..Len(records) }

commit(table, records) ==
    LET txn == insert_rows(table, records, 1)
    IN  IF txn.ok THEN txn.rows ELSE table

\* db.add / db.bulk_save_objects, then db.commit(), on session s.
Write(op, s, records, value) ==
    LET args == [records |-> records]
    IN  IF pending[s]
        THEN /\ last' = ResultOf(op, "-", args, PendingRollbackError, None)
             /\ UNCHANGED << prices, pending >>
        ELSE LET ok == insert_rows(prices, records, 1).ok
             IN  /\ prices' = commit(prices, records)
                 /\ pending' = [pending EXCEPT ![s] = ~ok]
                 /\ last' = IF ok
                            THEN ResultOf(op, "-", args, "ok", value)
                            ELSE ResultOf(op, "-", args, IntegrityError, None)

\* CryptoPriceRepository.create
price_create(s, record) ==
    /\ pc[s] = "idle"
    /\ Write("create", s, << record >>, RowVal(CryptoPrice(record)))
    /\ interleaved' = Interfere(s)
    /\ UNCHANGED << currencies, currency_seq, now, pc, call, others >>

\* CryptoPriceRepository.bulk_create
bulk_create(s, price_records) ==
    /\ pc[s] = "idle"
    /\ IF price_records = << >>
       THEN /\ last' = ResultOf("bulk_create", "-", [records |-> price_records], "ok",
                                IntVal(0))
            /\ UNCHANGED << prices, pending >>
       ELSE Write("bulk_create", s, price_records, IntVal(Len(price_records)))
    /\ interleaved' = Interfere(s)
    /\ UNCHANGED << currencies, currency_seq, now, pc, call, others >>

\* ORDER BY timestamp [DESC]: the rows of S as a list.
RECURSIVE order_by_timestamp(_, _)
order_by_timestamp(S, descending) ==
    IF S = {} THEN << >>
    ELSE LET first == CHOOSE p \in S :
                        \A q \in S : IF descending THEN p.timestamp >= q.timestamp
                                                   ELSE p.timestamp <= q.timestamp
         IN  << first >> \o order_by_timestamp(S \ {first}, descending)

\* LIMIT n
limit(rows, n) == SubSeq(rows, 1, IF n < Len(rows) THEN n ELSE Len(rows))

\* The query of get_latest.
latest_rows_ascending(table, currency_id, n) ==
    limit(order_by_timestamp({ p \in table : p.currency_id = currency_id }, FALSE), n)

latest_rows(table, currency_id, n) ==
    limit(order_by_timestamp({ p \in table : p.currency_id = currency_id }, TRUE), n)

\* The query of get_by_date_range.
date_range_rows_exclusive(table, currency_id, start_date, end_date) ==
    order_by_timestamp({ p \in table : /\ p.currency_id = currency_id
                                       /\ p.timestamp >= start_date
                                       /\ p.timestamp < end_date }, FALSE)

date_range_rows(table, currency_id, start_date, end_date) ==
    order_by_timestamp({ p \in table : /\ p.currency_id = currency_id
                                       /\ p.timestamp >= start_date
                                       /\ p.timestamp <= end_date }, FALSE)

\* The query of get_price_at_timestamp; .first() takes the first row, if any.
rows_at_or_before(table, currency_id, timestamp) ==
    order_by_timestamp({ p \in table : /\ p.currency_id = currency_id
                                       /\ p.timestamp <= timestamp }, TRUE)

rows_at(table, currency_id, timestamp) ==
    order_by_timestamp({ p \in table : /\ p.currency_id = currency_id
                                       /\ p.timestamp = timestamp }, FALSE)

\* A SELECT on session s.
Read(op, s, args, value) ==
    /\ pc[s] = "idle"
    /\ last' = IF pending[s]
               THEN ResultOf(op, "-", args, PendingRollbackError, None)
               ELSE ResultOf(op, "-", args, "ok", value)
    /\ interleaved' = Interfere(s)
    /\ UNCHANGED << currencies, currency_seq, prices, now, pc, pending, call, others >>

\* CryptoPriceRepository.get_latest
get_latest(s, currency_id, n) ==
    Read("get_latest", s, [currency_id |-> currency_id, limit |-> n],
         RowsVal(latest_rows(prices, currency_id, n)))

\* CryptoPriceRepository.get_by_date_range
get_by_date_range(s, currency_id, start_date, end_date) ==
    Read("get_by_date_range", s,
         [currency_id |-> currency_id, start_date |-> start_date, end_date |-> end_date],
         RowsVal(date_range_rows(prices, currency_id, start_date, end_date)))

\* CryptoPriceRepository.get_price_at_timestamp
get_price_at_timestamp(s, currency_id, timestamp) ==
    LET rows == rows_at(prices, currency_id, timestamp)
    IN  Read("get_price_at_timestamp", s,
             [currency_id |-> currency_id, timestamp |-> timestamp],
             IF rows = << >> THEN None ELSE RowVal(rows[1]))

\* The rows the filter of get_stats selects.
stats_window_any_currency(table, currency_id, start_date, end_date) ==
    { p \in table : p.timestamp >= start_date /\ p.timestamp <= end_date }

stats_window(table, currency_id, start_date, end_date) ==
    { p \in table : /\ p.currency_id = currency_id
                    /\ p.timestamp >= start_date
                    /\ p.timestamp <= end_date }

\* A number, as the fraction num / den with den > 0.
Number(num, den) == [num |-> num, den |-> den]

\* The values of a column, one per row.
column(rows, name) == [i \in 1..Len(rows) |-> rows[i][name]]

RECURSIVE sum(_)
sum(values) == IF values = << >> THEN 0 ELSE Head(values) + sum(Tail(values))

\* func.avg, func.max, func.min: NULL over no rows.
sql_avg(values) ==
    IF values = << >> THEN None ELSE Number(sum(values), Len(values))

sql_max(values) ==
    IF values = << >> THEN None
    ELSE Number(CHOOSE v \in { values[i] : i \in 1..Len(values) } :
                    \A i \in 1..Len(values) : v >= values[i], 1)

sql_min(values) ==
    IF values = << >> THEN None
    ELSE Number(CHOOSE v \in { values[i] : i \in 1..Len(values) } :
                    \A i \in 1..Len(values) : v <= values[i], 1)

\* Python's truth value of an aggregate: None and 0 are false.
truthy(x) == x # None /\ x.num # 0

\* float(x) if x else None
float_if(x) == IF truthy(x) THEN x ELSE None

StatsVal(stats) == [stats |-> stats]

\* The dict get_stats builds from the one row of its aggregate query.
stats_of(table, currency_id, start_date, end_date) ==
    LET rows == order_by_timestamp(stats_window(table, currency_id, start_date,
                                                end_date), FALSE)
    IN  [ avg_price  |-> float_if(sql_avg(column(rows, "close"))),
          max_price  |-> float_if(sql_max(column(rows, "high"))),
          min_price  |-> float_if(sql_min(column(rows, "low"))),
          avg_volume |-> float_if(sql_avg(column(rows, "volume"))),
          count      |-> Len(rows) ]

\* CryptoPriceRepository.get_stats
get_stats(s, currency_id, start_date, end_date) ==
    Read("get_stats", s,
         [currency_id |-> currency_id, start_date |-> start_date, end_date |-> end_date],
         StatsVal(stats_of(prices, currency_id, start_date, end_date)))

\* The database after seed_database registered its first two instruments.
InitPrices ==
    /\ currencies = { CryptoCurrency(1, <<"B", "T", "C">>, "Bitcoin", <<"U", "S", "D">>,
                                     TRUE, 0),
                      CryptoCurrency(2, <<"E", "T", "H">>, "Ethereum", <<"U", "S", "D">>,
                                     TRUE, 0) }
    /\ currency_seq = 2
    /\ prices = {}
    /\ now = 0
    /\ pc = [s \in Sessions |-> "idle"]
    /\ pending = [s \in Sessions |-> FALSE]
    /\ call = [s \in Sessions |-> NoArgs]
    /\ interleaved = [s \in Sessions |-> FALSE]
    /\ last = Result("none", "-", "ok", None)
    /\ compressed = {}
    /\ dropped = {}
    /\ time_series = << >>
    /\ metrics = None
    /\ ApiIdle
    /\ MoreIdle

NextPrices ==
    \/ \E s \in Sessions : close(s)
    \/ \E s \in Sessions, record \in PriceRecords : price_create(s, record)
    \/ \E s \in Sessions, price_records \in Batches : bulk_create(s, price_records)
    \/ \E s \in Sessions, currency_id \in CurrencyIds, n \in 1..MaxLimit :
          get_latest(s, currency_id, n)
    \/ \E s \in Sessions, currency_id \in CurrencyIds, start_date \in Timestamps,
          end_date \in Timestamps :
            get_by_date_range(s, currency_id, start_date, end_date)
    \/ \E s \in Sessions, currency_id \in CurrencyIds, timestamp \in Timestamps :
          get_price_at_timestamp(s, currency_id, timestamp)

SpecPrices == InitPrices /\ [][NextPrices]_vars

\* The writes of CryptoPriceRepository with get_stats.
NextStats ==
    \/ \E s \in Sessions : close(s)
    \/ \E s \in Sessions, record \in PriceRecords : price_create(s, record)
    \/ \E s \in Sessions, price_records \in Batches : bulk_create(s, price_records)
    \/ \E s \in Sessions, currency_id \in CurrencyIds, start_date \in Timestamps,
          end_date \in Timestamps :
            get_stats(s, currency_id, start_date, end_date)

SpecStats == InitPrices /\ [][NextStats]_vars

\* ------------------------------------------------- chunks of crypto_prices
\* add_compression_policy('crypto_prices', INTERVAL '30 days') and
\* add_retention_policy('crypto_prices', INTERVAL '1 year'), in days.
compress_after == 30
drop_after == 365

\* The chunks that exist: a chunk is created by the first row of its interval.
chunks(table) == { chunk_of(p.timestamp) : p \in table }

\* The end of chunk c's interval, which the interval does not contain.
range_end(c) == (c + 1) * chunk_time_interval

\* The policies look at a chunk's interval and at the clock, at nothing else.
compression_due_from_start(c, t) == c * chunk_time_interval <= t - compress_after

compression_due(c, t) == range_end(c) <= t - compress_after

retention_due_from_start(c, t) == c * chunk_time_interval <= t - drop_after

retention_due(c, t) == range_end(c) <= t - drop_after

\* timescaledb.compress, compress_segmentby = 'currency_id', compress_orderby =
\* 'timestamp DESC': the chunk's rows become one batch per currency_id, newest row
\* first.
segment_by(rows) ==
    [ currency_id \in { p.currency_id : p \in rows } |->
        order_by_timestamp({ p \in rows : p.currency_id = currency_id }, TRUE) ]

\* The rows a scan of the batches yields.
decompress(batches) ==
    UNION { { batches[k][i] : i \in 1..Len(batches[k]) } : k \in DOMAIN batches }

decompress_newest(batches) == { batches[k][1] : k \in DOMAIN batches }

\* The hypertable's rows once chunk c is compressed.
compress_chunk_lossy(table, c) ==
    { p \in table : chunk_of(p.timestamp) # c }
        \cup decompress_newest(segment_by({ p \in table : chunk_of(p.timestamp) = c }))

compress_chunk(table, c) ==
    { p \in table : chunk_of(p.timestamp) # c }
        \cup decompress(segment_by({ p \in table : chunk_of(p.timestamp) = c }))

\* drop_chunks: the hypertable's rows once chunk c is dropped.
drop_chunk(table, c) == { p \in table : chunk_of(p.timestamp) # c }

\* A run of the compression policy's job on chunk c.
policy_compression(c) ==
    /\ c \in chunks(prices)
    /\ c \notin compressed
    /\ compression_due(c, now)
    /\ prices' = compress_chunk(prices, c)
    /\ compressed' = compressed \cup {c}
    /\ last' = ResultOf("policy_compression", "-", [chunk |-> c], "ok", None)
    /\ UNCHANGED << currencies, currency_seq, now, pc, pending, call, interleaved,
                    dropped, time_series, metrics, api, more >>

\* A run of the retention policy's job on chunk c, compressed or not.
policy_retention(c) ==
    /\ c \in chunks(prices)
    /\ retention_due(c, now)
    /\ prices' = drop_chunk(prices, c)
    /\ compressed' = compressed \ {c}
    /\ dropped' = dropped \cup {c}
    /\ last' = ResultOf("policy_retention", "-", [chunk |-> c], "ok", None)
    /\ UNCHANGED << currencies, currency_seq, now, pc, pending, call, interleaved,
                    time_series, metrics, api, more >>

\* A run of a policy's job that fails: nothing is changed, and the job runs again
\* at its next scheduled time.
policy_fails(job) ==
    /\ last' = ResultOf(job, "-", [chunk |-> -1], "failed", None)
    /\ UNCHANGED << currencies, currency_seq, prices, now, pc, pending, call,
                    interleaved, others >>

\* The days the clock stops at: the start, and for every chunk the day before and
\* the day on which each policy is due for it.
Clock ==
    {0} \cup { range_end(c) + age - early : c \in 0..MaxChunk,
                                            age \in {compress_after, drop_after},
                                            early \in {0, 1} }

\* Time passes, up to day t.
pass_time(t) ==
    /\ t > now
    /\ now' = t
    /\ UNCHANGED << currencies, currency_seq, prices, pc, pending, call, interleaved,
                    last, others >>

\* The first and the last day of chunk 0 and the first day of every later chunk.
ChunkTimestamps ==
    {0, chunk_time_interval - 1} \cup { c * chunk_time_interval : c \in 1..MaxChunk }

\* A point of instrument 1 for each of these days, and a second delivery of the
\* first with other values.
ChunkRecords ==
    { Record(1, ts, QuoteA) : ts \in ChunkTimestamps } \cup { Record(1, 0, QuoteB) }

\* Batches of two: a point of chunk 0, then a point of the last chunk or the
\* second delivery.
ChunkBatches ==
    { << a, b >> : a \in { r \in ChunkRecords : r.timestamp < chunk_time_interval
                                                  /\ r.open = QuoteA.open },
                   b \in { Record(1, MaxChunk * chunk_time_interval, QuoteA),
                           Record(1, 0, QuoteB) } }

\* The database after seed_database registered its first instrument.
InitLifecycle ==
    /\ currencies = { CryptoCurrency(1, <<"B", "T", "C">>, "Bitcoin", <<"U", "S", "D">>,
                                     TRUE, 0) }
    /\ currency_seq = 1
    /\ prices = {}
    /\ now = 0
    /\ pc = [s \in Sessions |-> "idle"]
    /\ pending = [s \in Sessions |-> FALSE]
    /\ call = [s \in Sessions |-> NoArgs]
    /\ interleaved = [s \in Sessions |-> FALSE]
    /\ last = Result("none", "-", "ok", None)
    /\ compressed = {}
    /\ dropped = {}
    /\ time_series = << >>
    /\ metrics = None
    /\ ApiIdle
    /\ MoreIdle

NextLifecycle ==
    \/ \E t \in Clock : pass_time(t)
    \/ \E s \in Sessions : close(s)
    \/ \E s \in Sessions, record \in ChunkRecords : price_create(s, record)
    \/ \E s \in Sessions, price_records \in ChunkBatches : bulk_create(s, price_records)
    \/ \E s \in Sessions : get_latest(s, 1, MaxLimit)
    \/ \E s \in Sessions : get_by_date_range(s, 1, 0, range_end(MaxChunk))
    \/ \E s \in Sessions : get_price_at_timestamp(s, 1, 0)
    \/ \E s \in Sessions : get_stats(s, 1, 0, range_end(MaxChunk))
    \/ \E c \in 0..MaxChunk : policy_compression(c)
    \/ \E c \in 0..MaxChunk : policy_retention(c)
    \/ \E job \in {"policy_compression", "policy_retention"} : policy_fails(job)

SpecLifecycle == InitLifecycle /\ [][NextLifecycle]_vars

\* The background workers run each policy's job again and again, so a job that is
\* due for a chunk does not fail forever.
SpecLifecycleFair ==
    /\ SpecLifecycle
    /\ \A c \in 0..MaxChunk : WF_vars(policy_compression(c))
    /\ \A c \in 0..MaxChunk : WF_vars(policy_retention(c))

\* The store is used through one session: its operations commit one at a time.
StoreSessions == { CHOOSE s \in Sessions : TRUE }

\* ------------------------------------------------- deactivated instruments
\* The orders in which a query without ORDER BY may return the rows of S.
listings(S) ==
    { rows \in [1..Cardinality(S) -> S] :
        \A i, j \in 1..Cardinality(S) : rows[i] = rows[j] => i = j }

\* query.offset(skip)
offset(rows, skip) == SubSeq(rows, skip + 1, Len(rows))

\* The filter get_all adds when active_only is set.
active_filter(table, active_only) ==
    IF active_only THEN { r \in table : r.is_active = TRUE } ELSE table

\* CryptoCurrencyRepository.get_all
get_all(s, active_only, skip, n) ==
    \E rows \in listings(active_filter(currencies, active_only)) :
        Read("get_all", s, [active_only |-> active_only, skip |-> skip, limit |-> n],
             RowsVal(limit(offset(rows, skip), n)))

\* CryptoCurrencyRepository.get_by_symbol_and_market, called on its own.
select_by_symbol_and_market(s, symbol, market) ==
    LET found == get_by_symbol_and_market(currencies, symbol, market)
    IN  Read("get_by_symbol_and_market", s, [symbol |-> symbol, market |-> market],
             IF found = {} THEN None ELSE RowVal(CHOOSE r \in found : TRUE))

\* The registry with delete and get_all, and the writes of price points, through
\* one session.
NextDeactivated ==
    \/ \E s \in StoreSessions : close(s)
    \/ \E s \in StoreSessions, pair \in PairInputs :
            get_or_create_lookup(s, pair[1], "Coin", pair[2])
    \/ \E s \in StoreSessions : get_or_create_insert(s)
    \/ \E s \in StoreSessions, currency_id \in CurrencyIds : delete(s, currency_id)
    \/ \E s \in StoreSessions, pair \in PairInputs :
            select_by_symbol_and_market(s, pair[1], pair[2])
    \/ \E s \in StoreSessions, active_only \in BOOLEAN, skip \in 0..1 :
            get_all(s, active_only, skip, MaxLimit)
    \/ \E s \in StoreSessions, record \in BatchRecords : price_create(s, record)
    \/ \E s \in StoreSessions, price_records \in Batches : bulk_create(s, price_records)

SpecDeactivated == Init /\ [][NextDeactivated]_vars

\* ------------------------------------- the price store with its registry
\* The repository's operations on an instrument and on its points, before and
\* after every chunk is due for both policies.
NextStore ==
    \/ pass_time(range_end(MaxChunk) + drop_after)
    \/ \E s \in StoreSessions : close(s)
    \/ \E s \in StoreSessions, record \in ChunkRecords : price_create(s, record)
    \/ \E s \in StoreSessions, price_records \in ChunkBatches : bulk_create(s, price_records)
    \/ \E s \in StoreSessions : get_latest(s, 1, MaxLimit)
    \/ \E s \in StoreSessions : get_by_date_range(s, 1, 0, range_end(MaxChunk))
    \/ \E s \in StoreSessions : get_price_at_timestamp(s, 1, 0)
    \/ \E s \in StoreSessions : get_stats(s, 1, 0, range_end(MaxChunk))
    \/ \E s \in StoreSessions, is_active \in Optional(BOOLEAN) :
          update(s, 1, Absent, is_active)
    \/ \E s \in StoreSessions : delete(s, 1)
    \/ \E c \in 0..MaxChunk : policy_compression(c)
    \/ \E c \in 0..MaxChunk : policy_retention(c)

SpecStore == InitLifecycle /\ [][NextStore]_vars

\* ------------------------------------------------- CurrencyDataProcessor
\* Python floats are modelled as exact fractions in lowest terms.
RECURSIVE gcd(_, _)
gcd(a, b) == IF b = 0 THEN a ELSE gcd(b, a % b)

Abs(n) == IF n < 0 THEN 0 - n ELSE n

\* num / den, for den # 0, in lowest terms with a positive denominator.
Fraction(num, den) ==
    LET g == gcd(Abs(num), Abs(den))
        sign == IF den < 0 THEN -1 ELSE 1
    IN  Number(sign * (num \div g), sign * (den \div g))

Whole(n) == Number(n, 1)

minus(a, b) == Fraction(a.num * b.den - b.num * a.den, a.den * b.den)
plus(a, b) == Fraction(a.num * b.den + b.num * a.den, a.den * b.den)
divided(a, b) == Fraction(a.num * b.den, a.den * b.num)
times(a, n) == Fraction(a.num * n, a.den)
less(a, b) == a.num * b.den < b.num * a.den

\* The integer nearest to num / den (den > 0), a tie going to the even one.
round_half_even(num, den) ==
    LET q == num \div den
        r == num % den
    IN  IF 2 * r < den THEN q
        ELSE IF 2 * r > den THEN q + 1
        ELSE IF q % 2 = 0 THEN q ELSE q + 1

\* round(x, 2)
round2(x) == Fraction(round_half_even(x.num * 100, x.den), 100)

\* round(x, 2) if x else None
round2_if(x) == IF truthy(x) THEN round2(x) ELSE None

\* time_series[:n]
first_n(series, n) == SubSeq(series, 1, IF n < Len(series) THEN n ELSE Len(series))

RECURSIVE total(_)
total(values) == IF values = << >> THEN Whole(0) ELSE plus(Head(values), total(Tail(values)))

\* sum(d.close for d in data) / len(data), max(d.high ...), min(d.low ...)
average(values) == divided(total(values), Whole(Len(values)))

greatest(values) ==
    CHOOSE v \in { values[i] : i \in 1..Len(values) } :
        \A i \in 1..Len(values) : ~less(v, values[i])

least(values) ==
    CHOOSE v \in { values[i] : i \in 1..Len(values) } :
        \A i \in 1..Len(values) : ~less(values[i], v)

\* return None in place of the raise.
returns_none(message) == None

\* raise ValueError(message)
ValueError(message) == [raised |-> "ValueError", message |-> message]

\* CurrencyDataProcessor.calculate_metrics: the CalculatedMetrics it returns, or
\* the exception it raises.
CalculatedMetrics(series) ==
    IF series = << >> THEN ValueError("No time series data available")
    ELSE
    LET latest == series[1]
        daily_change ==
            IF Len(series) > 1 THEN minus(latest.close, series[2].close) ELSE None
        daily_change_percent ==
            IF Len(series) > 1 /\ truthy(series[2].close)
            THEN times(divided(daily_change, series[2].close), 100)
            ELSE None
        weekly_data == first_n(series, 7)
        monthly_data == first_n(series, 30)
    IN  [ latest_price         |-> latest.close,
          latest_volume        |-> latest.volume,
          latest_date          |-> latest.date,
          daily_change         |-> round2_if(daily_change),
          daily_change_percent |-> round2_if(daily_change_percent),
          weekly_avg           |-> round2_if(average(column(weekly_data, "close"))),
          weekly_high          |-> round2_if(greatest(column(weekly_data, "high"))),
          weekly_low           |-> round2_if(least(column(weekly_data, "low"))),
          monthly_avg          |-> round2_if(average(column(monthly_data, "close"))),
          monthly_high         |-> round2_if(greatest(column(monthly_data, "high"))),
          monthly_low          |-> round2_if(least(column(monthly_data, "low"))) ]

\* A caller hands its series to calculate_metrics.
calculate_metrics ==
    /\ metrics = None
    /\ metrics' = CalculatedMetrics(time_series)
    /\ UNCHANGED << currencies, currency_seq, prices, now, pc, pending, call,
                    interleaved, last, compressed, dropped, time_series, api, more >>

\* TimeSeriesData(date, open, high, low, close, volume)
TimeSeriesData(date, open_, high_, low_, close_, volume_) ==
    [ date |-> date, open |-> open_, high |-> high_, low |-> low_, close |-> close_,
      volume |-> volume_ ]

\* Daily points: the two of test_calculate_metrics_with_valid_data, a day that
\* closed where the next one did, a day priced in eighths, a day of zeros.
DailyPoints ==
    { TimeSeriesData("2024-01-15", Whole(42000), Whole(43000), Whole(41500),
                     Whole(42500), Whole(1000000)),
      TimeSeriesData("2024-01-14", Whole(41000), Whole(42000), Whole(40500),
                     Whole(41800), Whole(950000)),
      TimeSeriesData("2024-01-13", Whole(41900), Whole(42100), Whole(41700),
                     Whole(41800), Whole(0)),
      TimeSeriesData("2024-01-12", Whole(41800), Fraction(335203, 8),
                     Fraction(333601, 8), Fraction(334401, 8), Whole(7)),
      TimeSeriesData("2024-01-11", Whole(0), Whole(0), Whole(0), Whole(0), Whole(0)) }

\* The lists of at most n different points of S, in any order.
RECURSIVE ListsUpTo(_, _)
ListsUpTo(S, n) ==
    IF n = 0 THEN { << >> }
    ELSE LET shorter == ListsUpTo(S, n - 1)
         IN  shorter \cup { Append(b, x) : b \in { c \in shorter : Len(c) = n - 1 },
                                          x \in S }

Injective(list) == \A i, j \in 1..Len(list) : list[i] = list[j] => i = j

SeriesInputs == { list \in ListsUpTo(DailyPoints, MaxSeries) : Injective(list) }

InitMetrics ==
    /\ currencies = {}
    /\ currency_seq = 0
    /\ prices = {}
    /\ now = 0
    /\ pc = [s \in Sessions |-> "idle"]
    /\ pending = [s \in Sessions |-> FALSE]
    /\ call = [s \in Sessions |-> NoArgs]
    /\ interleaved = [s \in Sessions |-> FALSE]
    /\ last = Result("none", "-", "ok", None)
    /\ compressed = {}
    /\ dropped = {}
    /\ time_series \in SeriesInputs
    /\ metrics = None
    /\ ApiIdle
    /\ MoreIdle

NextMetrics == calculate_metrics

SpecMetrics == InitMetrics /\ [][NextMetrics]_vars

\* ------------------------------------------- the provider's response
\* The text of a date or of a number is a sequence of characters; ord is the
\* character's code point.
ord(c) ==
    CASE c = "-" -> 45
      [] c = "." -> 46
      [] c = "0" -> 48
      [] c = "1" -> 49
      [] c = "2" -> 50
      [] c = "3" -> 51
      [] c = "4" -> 52
      [] c = "5" -> 53
      [] c = "6" -> 54
      [] c = "7" -> 55
      [] c = "8" -> 56
      [] c = "9" -> 57

\* str < str: the first differing character decides, a proper prefix is less.
RECURSIVE str_less(_, _)
str_less(a, b) ==
    IF b = << >> THEN FALSE
    ELSE IF a = << >> THEN TRUE
    ELSE IF Head(a) # Head(b) THEN ord(Head(a)) < ord(Head(b))
    ELSE str_less(Tail(a), Tail(b))

\* int(digits)
RECURSIVE int_of(_)
int_of(digits) ==
    IF digits = << >> THEN 0
    ELSE int_of(SubSeq(digits, 1, Len(digits) - 1)) * 10
           + (ord(digits[Len(digits)]) - 48)

RECURSIVE power_of_ten(_)
power_of_ten(n) == IF n = 0 THEN 1 ELSE 10 * power_of_ten(n - 1)

\* float(x) of a decimal literal "ddd" or "ddd.ddd".
float(x) ==
    LET dots == { i \in 1..Len(x) : x[i] = "." }
    IN  IF dots = {} THEN Whole(int_of(x))
        ELSE LET dot == CHOOSE i \in dots : TRUE
                 decimals == SubSeq(x, dot + 1, Len(x))
             IN  Fraction(int_of(SubSeq(x, 1, dot - 1)) * power_of_ten(Len(decimals))
                            + int_of(decimals),
                          power_of_ten(Len(decimals)))

\* The default 0 of values.get(key, 0): float(0) is float("0").
zero == <<"0">>

\* dict.get(key, default)
get(dict, key, default) == IF key \in DOMAIN dict THEN dict[key] ELSE default

\* {}
EmptyDict == << >>

\* CurrencyDataProcessor.parse_metadata
parse_metadata(raw_metadata) ==
    [ information           |-> get(raw_metadata, "1. Information", ""),
      digital_currency_code |-> get(raw_metadata, "2. Digital Currency Code", ""),
      digital_currency_name |-> get(raw_metadata, "3. Digital Currency Name", ""),
      market_code           |-> get(raw_metadata, "4. Market Code", ""),
      market_name           |-> get(raw_metadata, "5. Market Name", ""),
      last_refreshed        |-> get(raw_metadata, "6. Last Refreshed", ""),
      time_zone             |-> get(raw_metadata, "7. Time Zone", "") ]

\* list.sort(key=lambda x: x.date): the least date first.
RECURSIVE sort_ascending(_)
sort_ascending(list) ==
    IF list = << >> THEN << >>
    ELSE LET i == CHOOSE k \in 1..Len(list) :
                     /\ \A j \in 1..Len(list) : ~str_less(list[j].date, list[k].date)
                     /\ \A j \in 1..(k - 1) : str_less(list[k].date, list[j].date)
         IN  << list[i] >>
               \o sort_ascending(SubSeq(list, 1, i - 1) \o SubSeq(list, i + 1, Len(list)))

\* list.sort(key=lambda x: x.date, reverse=True): the greatest date first, equal
\* dates in their order in the list.
RECURSIVE sort_by_date(_)
sort_by_date(list) ==
    IF list = << >> THEN << >>
    ELSE LET i == CHOOSE k \in 1..Len(list) :
                     /\ \A j \in 1..Len(list) : ~str_less(list[k].date, list[j].date)
                     /\ \A j \in 1..(k - 1) : str_less(list[j].date, list[k].date)
         IN  << list[i] >>
               \o sort_by_date(SubSeq(list, 1, i - 1) \o SubSeq(list, i + 1, Len(list)))

\* CurrencyDataProcessor.parse_time_series; the dict is the list of its items in
\* their order.
parse_time_series(raw_time_series) ==
    sort_by_date([ i \in 1..Len(raw_time_series) |->
        LET date_str == raw_time_series[i][1]
            values == raw_time_series[i][2]
        IN  TimeSeriesData(date_str,
                           float(get(values, "1. open", zero)),
                           float(get(values, "2. high", zero)),
                           float(get(values, "3. low", zero)),
                           float(get(values, "4. close", zero)),
                           float(get(values, "5. volume", zero))) ])

\* time_series[:10]
recent_days == 10

\* CurrencyDataProcessor.process_response: the CurrencyResponse it returns, or the
\* exception calculate_metrics raises.
CurrencyResponse(data) ==
    LET metadata == parse_metadata(get(data, "Meta Data", EmptyDict))
        series == parse_time_series(
                      get(data, "Time Series (Digital Currency Daily)", EmptyDict))
        calculated == CalculatedMetrics(series)
    IN  IF "raised" \in DOMAIN calculated THEN calculated
        ELSE [ metadata    |-> metadata,
               metrics     |-> calculated,
               recent_data |-> first_n(series, recent_days) ]

\* AlphaVantageService.get_digital_currency_daily: what it returns or raises for
\* the reply of the provider's API.
HTTPStatusError(message) == [raised |-> "HTTPStatusError", message |-> message]

get_digital_currency_daily(reply) ==
    IF reply.status_code >= 400
    THEN HTTPStatusError("Server error for url")
    ELSE IF "Error Message" \in DOMAIN reply.json
    THEN ValueError("API Error: " \o reply.json["Error Message"])
    ELSE IF "Note" \in DOMAIN reply.json
    THEN ValueError("API Rate Limit: " \o reply.json["Note"])
    ELSE [returned |-> reply.json]

\* A caller (the dashboard's fetch_crypto_data, the seed script) processes the
\* data the provider call returned.
process_response ==
    /\ response = None
    /\ "returned" \in DOMAIN get_digital_currency_daily(raw_data)
    /\ response' = CurrencyResponse(get_digital_currency_daily(raw_data).returned)
    /\ UNCHANGED << currencies, currency_seq, prices, now, pc, pending, call,
                    interleaved, last, compressed, dropped, time_series, metrics,
                    raw_data, http, more >>

\* A handler that answers 200 where it should raise.
responds_ok(status_code, detail) == [status_code |-> 200, detail |-> detail]

\* raise HTTPException(status_code, detail) and the response of a route that
\* returns.
HTTPException(status_code, detail) == [status_code |-> status_code, detail |-> detail]
OK(body) == [status_code |-> 200, body |-> body]

\* The try block of home and of get_currency, for the provider called with
\* symbol and market.
route(name, symbol, market) ==
    LET fetched == get_digital_currency_daily(raw_data)
        processed == IF "returned" \in DOMAIN fetched
                     THEN CurrencyResponse(fetched.returned) ELSE fetched
        reply == IF "raised" \notin DOMAIN processed THEN OK(processed)
                 ELSE IF processed.raised = "ValueError"
                 THEN HTTPException(400, processed.message)
                 ELSE HTTPException(500, "Error fetching currency data: "
                                           \o processed.message)
    IN  /\ http = None
        /\ http' = [ route |-> name, called_with |-> [symbol |-> symbol, market |-> market],
                     reply |-> reply ]
        /\ UNCHANGED << currencies, currency_seq, prices, now, pc, pending, call,
                        interleaved, last, compressed, dropped, time_series, metrics,
                        raw_data, response, more >>

\* settings.default_symbol, settings.default_market
default_symbol == <<"B", "T", "C">>
default_market == <<"U", "S", "D">>

\* GET /home
home == route("/home", default_symbol, default_market)

\* GET /currency/{symbol}?market=
get_currency(symbol, market) == route("/currency/{symbol}", upper(symbol), upper(market))

\* ---------------------------------------------- replies of the provider
\* The characters of n written with width digits, as "%0*d" writes it.
RECURSIVE digits_of(_, _)
digits_of(n, width) ==
    IF width = 0 THEN << >>
    ELSE Append(digits_of(n \div 10, width - 1),
                CASE n % 10 = 0 -> "0" [] n % 10 = 1 -> "1" [] n % 10 = 2 -> "2"
                  [] n % 10 = 3 -> "3" [] n % 10 = 4 -> "4" [] n % 10 = 5 -> "5"
                  [] n % 10 = 6 -> "6" [] n % 10 = 7 -> "7" [] n % 10 = 8 -> "8"
                  [] n % 10 = 9 -> "9")

\* "YYYY-MM-DD", the provider's key of a day.
iso(year, month, day) ==
    digits_of(year, 4) \o <<"-">> \o digits_of(month, 2) \o <<"-">> \o digits_of(day, 2)

\* "n.00"
amount(n, width) == digits_of(n, width) \o <<".", "0", "0">>

\* The values of a day under the keys parse_time_series reads.
DayValues(open_, high_, low_, close_, volume_) ==
    ("1. open" :> open_) @@ ("2. high" :> high_) @@ ("3. low" :> low_)
        @@ ("4. close" :> close_) @@ ("5. volume" :> volume_)

\* The values of a day under the keys of mock_api_response.
MarketDayValues(open_, high_, low_, close_, volume_) ==
    ("1a. open (USD)" :> open_) @@ ("2a. high (USD)" :> high_)
        @@ ("3a. low (USD)" :> low_) @@ ("4a. close (USD)" :> close_)
        @@ ("5. volume" :> volume_)

\* Days of a short reply: the two of mock_api_response under the keys the parser
\* reads, the last day of the year before, and a day under the mock's own keys.
ShortDays ==
    { << iso(2024, 1, 15), DayValues(amount(42000, 5), amount(43000, 5), amount(41500, 5),
                                     amount(42500, 5), amount(1000000, 7)) >>,
      << iso(2024, 1, 14), DayValues(amount(41000, 5), amount(42000, 5), amount(40500, 5),
                                     amount(41800, 5), amount(950000, 6)) >>,
      << iso(2023, 12, 31), DayValues(amount(40000, 5), amount(40900, 5), amount(39500, 5),
                                      amount(40100, 5), amount(900000, 6)) >>,
      << iso(2024, 2, 1), MarketDayValues(amount(43000, 5), amount(44000, 5),
                                          amount(42500, 5), amount(43500, 5),
                                          amount(800000, 6)) >> }

\* Day d of a long reply.
LongDay(d) ==
    << iso(2024, 3, d), DayValues(amount(50000 + d, 5), amount(50100 + d, 5),
                                  amount(49900 + d, 5), amount(50000 + 7 * d, 5),
                                  amount(1000 + d, 4)) >>

\* The days 1..LongEntries, from day first on and around, forwards or backwards.
LongDays(first, forwards) ==
    [ i \in 1..LongEntries |->
        LongDay(1 + ( (IF forwards THEN first + i ELSE first - i + LongEntries)
                      % LongEntries )) ]

\* The "Time Series (Digital Currency Daily)" dicts, as the lists of their items.
TimeSeriesDicts ==
    { list \in ListsUpTo(ShortDays, MaxEntries) : Injective(list) }
    \cup { LongDays(first, forwards) : first \in 0..(LongEntries - 1),
                                        forwards \in BOOLEAN }

MetaData ==
    ("1. Information" :> "Daily Prices and Volumes for Digital Currency")
        @@ ("2. Digital Currency Code" :> "BTC") @@ ("3. Digital Currency Name" :> "Bitcoin")
        @@ ("4. Market Code" :> "USD") @@ ("5. Market Name" :> "United States Dollar")
        @@ ("6. Last Refreshed" :> "2024-01-15") @@ ("7. Time Zone" :> "UTC")

\* What the provider's API replies: daily data, an error message, a rate-limit
\* note, a message under another key, or a server error.
ProviderReplies ==
    { [ status_code |-> 200,
        json |-> ("Meta Data" :> MetaData)
                   @@ ("Time Series (Digital Currency Daily)" :> days) ] :
          days \in TimeSeriesDicts }
    \cup { [ status_code |-> 200, json |-> ("Error Message" :> "Invalid API call") ],
           [ status_code |-> 200, json |-> ("Note" :> "5 calls per minute") ],
           [ status_code |-> 200, json |-> ("Information" :> "premium endpoint") ],
           [ status_code |-> 500, json |-> EmptyDict ] }

\* The symbol and market a client puts into GET /currency/{symbol}?market=.
RouteInputs == { << <<"e", "t", "h">>, <<"U", "S", "D">> >>,
                 << <<"B", "T", "c">>, <<"u", "s", "d">> >> }

InitApi ==
    /\ currencies = {}
    /\ currency_seq = 0
    /\ prices = {}
    /\ now = 0
    /\ pc = [s \in Sessions |-> "idle"]
    /\ pending = [s \in Sessions |-> FALSE]
    /\ call = [s \in Sessions |-> NoArgs]
    /\ interleaved = [s \in Sessions |-> FALSE]
    /\ last = Result("none", "-", "ok", None)
    /\ compressed = {}
    /\ dropped = {}
    /\ time_series \in { list \in SeriesInputs : Len(list) <= 1 }
    /\ metrics = None
    /\ raw_data \in ProviderReplies
    /\ response = None
    /\ http = None
    /\ MoreIdle

NextApi ==
    \/ calculate_metrics
    \/ process_response
    \/ home
    \/ \E input \in RouteInputs : get_currency(input[1], input[2])

SpecApi == InitApi /\ [][NextApi]_vars

\* ------------------------------------------------------- session blocks
\* db = SessionLocal(); try: ...; finally: db.close() -- in get_db, in the
\* dashboard's fetch_crypto_data_from_db and get_db_stats, in seed_database.
Blocks == {"get_db", "fetch_crypto_data_from_db", "seed_database"}

\* How the body of a block ends: it returns, an operation raises, or the caller
\* is aborted (GeneratorExit thrown into get_db, a cancellation, an interrupt).
Exits == {"returned", "raised", "aborted"}

\* The connections checked out of the engine's pool.
checked_out(blocks) == Cardinality({ c \in Callers : blocks[c].connection })

\* QueuePool hands out at most pool_size + max_overflow connections.
may_check_out(blocks) == checked_out(blocks) < pool_size + max_overflow

\* A close that a block would run only when its body returned.
closes_on_return(exit) == exit = "returned"

\* finally: db.close() runs however the body ended.
closes(exit) == TRUE

\* db = SessionLocal(): the session holds no connection until it is used.
enter(c, block) ==
    /\ scopes[c].at = "outside"
    /\ scopes' = [scopes EXCEPT ![c] = [ at |-> "try", block |-> block,
                                         connection |-> FALSE, exit |-> "none" ]]
    /\ UNCHANGED << currencies, currency_seq, prices, now, pc, pending, call,
                    interleaved, last, compressed, dropped, time_series, metrics, api,
                    indicators >>

\* The body issues a statement: the session checks a connection out on its first
\* use; when the pool is exhausted for pool_timeout, the statement raises
\* TimeoutError.
use(c) ==
    /\ scopes[c].at = "try"
    /\ scopes' = [scopes EXCEPT ![c] =
                    IF scopes[c].connection THEN @
                    ELSE IF may_check_out(scopes) THEN [@ EXCEPT !.connection = TRUE]
                    ELSE [@ EXCEPT !.at = "finally", !.exit = "raised"]]
    /\ UNCHANGED << currencies, currency_seq, prices, now, pc, pending, call,
                    interleaved, last, compressed, dropped, time_series, metrics, api,
                    indicators >>

\* The body ends.
leave(c, exit) ==
    /\ scopes[c].at = "try"
    /\ scopes' = [scopes EXCEPT ![c] = [@ EXCEPT !.at = "finally", !.exit = exit]]
    /\ UNCHANGED << currencies, currency_seq, prices, now, pc, pending, call,
                    interleaved, last, compressed, dropped, time_series, metrics, api,
                    indicators >>

\* The finally clause: db.close() returns the session's connection to the pool.
finally(c) ==
    /\ scopes[c].at = "finally"
    /\ scopes' = [scopes EXCEPT ![c] =
                    [ at |-> "outside", block |-> "none",
                      connection |-> IF closes(@.exit) THEN FALSE ELSE @.connection,
                      exit |-> @.exit ]]
    /\ UNCHANGED << currencies, currency_seq, prices, now, pc, pending, call,
                    interleaved, last, compressed, dropped, time_series, metrics, api,
                    indicators >>

NextSessions ==
    \/ \E c \in Callers, block \in Blocks : enter(c, block)
    \/ \E c \in Callers : use(c)
    \/ \E c \in Callers, exit \in Exits : leave(c, exit)
    \/ \E c \in Callers : finally(c)

\* The callers' blocks on their own: the registry and the stores stay as Init
\* leaves them.
SpecSessions == Init /\ [][NextSessions]_vars

\* --------------------------------------------------- computed_indicators
\* The column parameters is nullable text: NULL, or a JSON string.
Text(str) == [text |-> str]

\* column = column in SQL: a comparison with NULL is not true.
sql_equal(a, b) == a # None /\ b # None /\ a = b

\* UniqueConstraint("currency_id", "timestamp", "indicator_type", "parameters",
\* name="uq_currency_indicator"): whether the table holds a row that conflicts
\* with row.
uq_currency_indicator(table, row) ==
    \E r \in table : /\ r.currency_id = row.currency_id
                     /\ r.timestamp = row.timestamp
                     /\ r.indicator_type = row.indicator_type
                     /\ sql_equal(r.parameters, row.parameters)

\* ComputedIndicator(**record) with the id the sequence hands out.
ComputedIndicator(id, record) ==
    [ id |-> id, currency_id |-> record.currency_id, timestamp |-> record.timestamp,
      indicator_type |-> record.indicator_type,
      indicator_name |-> record.indicator_name, value |-> record.value,
      parameters |-> record.parameters ]

\* The INSERTs of one transaction into computed_indicators, from record i on; every
\* INSERT takes an id from the sequence, also the one that fails.
RECURSIVE insert_indicators(_, _, _, _)
insert_indicators(txn, seq, records, i) ==
    IF i > Len(records)
    THEN [ok |-> TRUE, rows |-> txn, seq |-> seq]
    ELSE LET row == ComputedIndicator(seq + 1, records[i])
         IN  IF uq_currency_indicator(txn, row) \/ ~fk_currency(row.currency_id)
             THEN [ok |-> FALSE, rows |-> txn, seq |-> seq + 1]
             ELSE insert_indicators(txn \cup {row}, seq + 1, records, i + 1)

\* db.add / db.bulk_save_objects, then db.commit(), on session s.
WriteIndicators(op, s, records, counted) ==
    LET args == [records |-> records]
        txn == insert_indicators(indicators.rows, indicators.seq, records, 1)
    IN  /\ indicators.seq + Len(records) <= MaxIndicators
        /\ IF pending[s]
           THEN /\ last' = ResultOf(op, "-", args, PendingRollbackError, None)
                /\ UNCHANGED << indicators, pending >>
           ELSE /\ indicators' = [ rows |-> IF txn.ok THEN txn.rows ELSE indicators.rows,
                                   seq |-> txn.seq ]
                /\ pending' = [pending EXCEPT ![s] = ~txn.ok]
                /\ last' = IF txn.ok
                           THEN ResultOf(op, "-", args, "ok",
                                         IF counted THEN IntVal(Len(records))
                                         ELSE RowVal(ComputedIndicator(indicators.seq + 1,
                                                                       records[1])))
                           ELSE ResultOf(op, "-", args, IntegrityError, None)

\* ComputedIndicatorRepository.create
indicator_create(s, record) ==
    /\ pc[s] = "idle"
    /\ WriteIndicators("indicator_create", s, << record >>, FALSE)
    /\ interleaved' = Interfere(s)
    /\ UNCHANGED << currencies, currency_seq, prices, now, pc, call, compressed, dropped,
                    time_series, metrics, api, scopes >>

\* ComputedIndicatorRepository.bulk_create
indicator_bulk_create(s, indicator_records) ==
    /\ pc[s] = "idle"
    /\ IF indicator_records = << >>
       THEN /\ last' = ResultOf("indicator_bulk_create", "-",
                                [records |-> indicator_records], "ok", IntVal(0))
            /\ UNCHANGED << indicators, pending >>
       ELSE WriteIndicators("indicator_bulk_create", s, indicator_records, TRUE)
    /\ interleaved' = Interfere(s)
    /\ UNCHANGED << currencies, currency_seq, prices, now, pc, call, compressed, dropped,
                    time_series, metrics, api, scopes >>

\* ComputedIndicatorRepository.delete_by_currency_and_date_range; an
\* indicator_type that is None or "" adds no filter.
delete_by_currency_and_date_range(s, currency_id, start_date, end_date, indicator_type) ==
    LET args == [ currency_id |-> currency_id, start_date |-> start_date,
                  end_date |-> end_date, indicator_type |-> indicator_type ]
        hit == { r \in indicators.rows :
                   /\ r.currency_id = currency_id
                   /\ r.timestamp >= start_date
                   /\ r.timestamp <= end_date
                   /\ indicator_type # << >> => r.indicator_type = indicator_type[1] }
    IN  /\ pc[s] = "idle"
        /\ IF pending[s]
           THEN /\ last' = ResultOf("indicator_delete", "-", args, PendingRollbackError,
                                    None)
                /\ UNCHANGED indicators
           ELSE /\ indicators' = [indicators EXCEPT !.rows = @ \ hit]
                /\ last' = ResultOf("indicator_delete", "-", args, "ok",
                                    IntVal(Cardinality(hit)))
        /\ interleaved' = Interfere(s)
        /\ UNCHANGED << currencies, currency_seq, prices, now, pc, pending, call,
                        compressed, dropped, time_series, metrics, api, scopes >>

\* The records callers hand to create and bulk_create: two kinds of indicator of
\* instrument 1 at two instants, without parameters (create's default) and with,
\* and one of an instrument that does not exist.
IndicatorRecords ==
    { [ currency_id |-> 1, timestamp |-> ts, indicator_type |-> type,
        indicator_name |-> type, value |-> 50, parameters |-> parameters ] :
          ts \in {0, 1}, type \in {"RSI", "SMA"},
          parameters \in {None, Text("{\"period\": 14}")} }
    \cup { [ currency_id |-> 2, timestamp |-> 0, indicator_type |-> "RSI",
             indicator_name |-> "RSI", value |-> 50, parameters |-> None ] }

\* Batches of two records for the same instant.
IndicatorBatches ==
    { << a, b >> : a, b \in { r \in IndicatorRecords : r.currency_id = 1
                                                        /\ r.timestamp = 0 } }

NextIndicators ==
    \/ \E s \in Sessions : close(s)
    \/ \E s \in Sessions, record \in IndicatorRecords : indicator_create(s, record)
    \/ \E s \in Sessions, indicator_records \in IndicatorBatches \cup { << >> } :
          indicator_bulk_create(s, indicator_records)
    \/ \E s \in Sessions, indicator_type \in Optional({"RSI"}) :
          delete_by_currency_and_date_range(s, 1, 0, 0, indicator_type)

\* The indicator store of a database with one instrument.
SpecIndicators == InitLifecycle /\ [][NextIndicators]_vars

\* ================================================================ claims
\* The rows of the upper-cased <<symbol, market>> pair.
RowsOfPair(table, symbol, market) ==
    { r \in table : r.symbol = upper(symbol) /\ r.market = upper(market) }

\* A get_or_create on a usable session that no other session interleaved with
\* returned the id of the one row of its pair.
C1_ReturnsTheOneRow ==
    ( /\ last.op = "get_or_create"
      /\ last.outcome # PendingRollbackError
      /\ ~last.args.interleaved )
    => /\ last.outcome = "ok"
       /\ Cardinality(RowsOfPair(currencies, last.args.symbol, last.args.market)) = 1
       /\ \A r \in RowsOfPair(currencies, last.args.symbol, last.args.market) :
             last.value = IntVal(r.id)

\* A get_or_create goes on to create only when its pair has no row; one that
\* returns the row it selected writes nothing.
C1_Select ==
    /\ \A s \in Sessions :
          pc[s] = "idle" /\ pc'[s] = "create"
          => RowsOfPair(currencies, call'[s].symbol, call'[s].market) = {}
    /\ ( last'.op = "get_or_create" /\ last'.via = "select" /\ now' = now )
       => currencies' = currencies

C1_StableIds ==
    \A r \in currencies :
        \E q \in currencies' : q.id = r.id /\ q.symbol = r.symbol /\ q.market = r.market

\* C1: a get_or_create that no other session interleaves with succeeds and returns
\* the id of the one row of the upper-cased (symbol, market) pair, whatever the
\* casing and the display name passed: it creates the row when the pair has none,
\* and returns the existing row (creating nothing) when it has one.  A row keeps
\* its id and its pair for ever, so two sequential calls return the same id and
\* leave exactly one row of the pair.
C1_GetOrCreateIdempotent ==
    /\ []C1_ReturnsTheOneRow
    /\ [][C1_Select /\ C1_StableIds]_vars

\* A second get_or_create found the row an earlier one created.
C1_Witness ==
    /\ last.op = "get_or_create"
    /\ last.via = "select"
    /\ last.outcome = "ok"
    /\ \E r \in currencies : last.value = IntVal(r.id)

\* C2: in every reachable state, under every interleaving of the sessions'
\* get_or_create calls, no two rows of crypto_currencies have the same
\* (symbol, market), and every stored pair is upper-cased.
C2_UniquePair ==
    /\ \A r1, r2 \in currencies :
          r1.symbol = r2.symbol /\ r1.market = r2.market => r1 = r2
    /\ \A r \in currencies : r.symbol = upper(r.symbol) /\ r.market = upper(r.market)

\* Two sessions raced on one pair and the constraint rejected the second INSERT.
C2_Witness ==
    /\ last.op = "get_or_create"
    /\ last.outcome = IntegrityError
    /\ currencies # {}

\* C3: no get_or_create on a usable session ends in an error: the caller that
\* loses the uniqueness race re-reads and returns the winner's row.
C3_LoserReturnsWinnersRow ==
    ( last.op = "get_or_create" /\ last.outcome # PendingRollbackError )
    => /\ last.outcome = "ok"
       /\ \E r \in currencies : last.value = IntVal(r.id)

\* A step that is a call of op: every call sets last, and only Tick, which moves
\* the clock, leaves it alone.
IsCall(op) == last'.op = op /\ now' = now

C4_Delete ==
    ( IsCall("delete") /\ last'.outcome # PendingRollbackError )
    => LET currency_id == last'.args.currency_id
       IN  IF \A r \in currencies : r.id # currency_id
           THEN /\ last'.outcome = "ok"
                /\ last'.value = BoolVal(FALSE)
                /\ currencies' = currencies
           ELSE /\ last'.outcome = "ok"
                /\ last'.value = BoolVal(TRUE)
                /\ Cardinality(currencies') = Cardinality(currencies)
                /\ \A r \in currencies :
                      IF r.id # currency_id
                      THEN r \in currencies'
                      ELSE \E q \in currencies' :
                              /\ q.id = r.id
                              /\ q.symbol = r.symbol
                              /\ q.market = r.market
                              /\ q.name = r.name
                              /\ q.created_at = r.created_at
                              /\ q.is_active = FALSE
                              /\ q.updated_at = now

C4_NoRowRemoved ==
    \A r \in currencies :
        \E q \in currencies' :
            /\ q.id = r.id
            /\ q.symbol = r.symbol
            /\ q.market = r.market
            /\ q.created_at = r.created_at

\* C4: delete is a soft delete.  On a usable session, delete of an unknown id
\* returns False and changes no row; delete of a known id returns True, sets that
\* row's is_active to False and its updated_at to the current time, and leaves its
\* id, symbol, market, name and created_at, and every other row, as they were.  No
\* step of any registry operation removes a row.
C4_SoftDelete == [][C4_Delete /\ C4_NoRowRemoved]_vars

\* A delete of a known, active instrument returned True, after the clock moved.
C4_Witness ==
    /\ last.op = "delete"
    /\ last.outcome = "ok"
    /\ last.value = BoolVal(TRUE)
    /\ \E r \in currencies : ~r.is_active /\ r.updated_at > r.created_at
    /\ Cardinality(currencies) = 2

\* ------------------------------------------------------------ price store
HasKey(table, currency_id, timestamp) ==
    \E p \in table : p.currency_id = currency_id /\ p.timestamp = timestamp

PointsOf(table, currency_id) == { p \in table : p.currency_id = currency_id }

\* The rows of a list, as a set.
Range(rows) == { rows[i] : i \in 1..Len(rows) }

C5_OnePointPerKey ==
    \A p, q \in prices :
        p.currency_id = q.currency_id /\ p.timestamp = q.timestamp => p = q

C5_SecondCreateFails ==
    ( /\ IsCall("create")
      /\ HasKey(prices, last'.args.records[1].currency_id,
                last'.args.records[1].timestamp) )
    => /\ last'.outcome \in { IntegrityError, PendingRollbackError }
       /\ prices' = prices

\* C5: crypto_prices holds at most one point per (currency_id, timestamp) in
\* every reachable state; a create whose key is already stored raises (the
\* duplicate-key IntegrityError, on a usable session) and leaves every stored
\* point, the one with that key included, as it was.
C5_NoSilentUpsert == []C5_OnePointPerKey /\ [][C5_SecondCreateFails]_vars

\* A create with a stored key and other values was rejected.
C5_Witness ==
    /\ last.op = "create"
    /\ last.outcome = IntegrityError
    /\ \E p \in prices :
          /\ p.currency_id = last.args.records[1].currency_id
          /\ p.timestamp = last.args.records[1].timestamp
          /\ p.close # last.args.records[1].close

\* Row i of the batch has the key of a stored point or of an earlier row.
BatchConflict(table, records) ==
    \E i \in 1..Len(records) :
        \/ HasKey(table, records[i].currency_id, records[i].timestamp)
        \/ \E j \in 1..(i - 1) :
              /\ records[j].currency_id = records[i].currency_id
              /\ records[j].timestamp = records[i].timestamp

C6_Batch ==
    IsCall("bulk_create")
    => LET records == last'.args.records
       IN  /\ \/ /\ last'.outcome = "ok"
                 /\ prices' = prices \cup Range(records)
                 /\ Cardinality(prices') = Cardinality(prices) + Len(records)
              \/ /\ last'.outcome # "ok"
                 /\ prices' = prices
           /\ BatchConflict(prices, records) => last'.outcome # "ok"

\* C6: bulk_create is all-or-nothing.  Either it returns and the committed table
\* has gained every row of the batch, or it raises and the committed table, which
\* is what the other sessions read, is as it was; a batch with a row whose key is
\* stored, or is the key of another row of the batch, raises.
C6_AllOrNothing == [][C6_Batch]_vars

\* A batch failed on its second row and its first, whose key is free, is not stored.
C6_Witness ==
    /\ last.op = "bulk_create"
    /\ last.outcome = IntegrityError
    /\ Len(last.args.records) = 2
    /\ ~HasKey(prices, last.args.records[1].currency_id, last.args.records[1].timestamp)
    /\ HasKey(prices, last.args.records[2].currency_id, last.args.records[2].timestamp)

\* The batch is N >= 1 points of one registered instrument, with distinct keys.
OneInstrumentDistinctKeys(records) ==
    /\ records # << >>
    /\ \A i \in 1..Len(records) : records[i].currency_id = records[1].currency_id
    /\ \A i, j \in 1..Len(records) : records[i].timestamp = records[j].timestamp => i = j
    /\ \E r \in currencies : r.id = records[1].currency_id

MinTimestamp(records) ==
    CHOOSE t \in { r.timestamp : r \in Range(records) } :
        \A r \in Range(records) : t <= r.timestamp

MaxTimestampOf(records) ==
    CHOOSE t \in { r.timestamp : r \in Range(records) } :
        \A r \in Range(records) : t >= r.timestamp

C7_RoundTrip ==
    ( /\ IsCall("bulk_create")
      /\ last'.outcome # PendingRollbackError
      /\ OneInstrumentDistinctKeys(last'.args.records)
      /\ PointsOf(prices, last'.args.records[1].currency_id) = {} )
    => LET records == last'.args.records
           read == date_range_rows(prices', records[1].currency_id,
                                   MinTimestamp(records), MaxTimestampOf(records))
       IN  /\ last'.outcome = "ok"
           /\ last'.value = IntVal(Len(records))
           /\ Len(read) = Len(records)
           /\ Range(read) = Range(records)

C7_Empty ==
    ( IsCall("bulk_create") /\ last'.args.records = << >> )
    => /\ last'.outcome = "ok"
       /\ last'.value = IntVal(0)
       /\ prices' = prices

\* C7: a bulk_create, on a usable session, of N >= 1 points with distinct keys of
\* one instrument that has no stored point returns N, and get_by_date_range over
\* [least timestamp, greatest timestamp] of the batch then reads N rows whose
\* timestamp, open, high, low, close and volume are those of the batch; a
\* bulk_create of the empty list returns 0 and changes nothing.
C7_BulkCreateRoundTrip == [][C7_RoundTrip /\ C7_Empty]_vars

\* Two points, handed over newest first, were stored as the instrument's first.
C7_Witness ==
    /\ last.op = "bulk_create"
    /\ last.outcome = "ok"
    /\ last.value = IntVal(2)
    /\ last.args.records[1].timestamp > last.args.records[2].timestamp
    /\ Cardinality(PointsOf(prices, last.args.records[1].currency_id)) = 2

\* rows is strictly ascending (or strictly descending) by timestamp.
StrictlyOrdered(rows, descending) ==
    \A i, j \in 1..Len(rows) :
        i < j => IF descending THEN rows[i].timestamp > rows[j].timestamp
                               ELSE rows[i].timestamp < rows[j].timestamp

\* C8: get_by_date_range on a usable session returns, without an error, exactly
\* the stored points of the instrument with start_date <= timestamp <= end_date,
\* each once, in strictly ascending timestamp order -- the empty list when there
\* is none, as when start_date > end_date.
C8_DateRange ==
    ( last.op = "get_by_date_range" /\ last.outcome # PendingRollbackError )
    => /\ last.outcome = "ok"
       /\ LET rows == last.value.rows
              wanted == { p \in prices : /\ p.currency_id = last.args.currency_id
                                         /\ last.args.start_date <= p.timestamp
                                         /\ p.timestamp <= last.args.end_date }
          IN  /\ Range(rows) = wanted
              /\ Len(rows) = Cardinality(wanted)
              /\ StrictlyOrdered(rows, FALSE)

\* A window returned two points, ending on one, leaving one out, next to another
\* instrument's point.
C8_Witness ==
    /\ last.op = "get_by_date_range"
    /\ last.outcome = "ok"
    /\ Len(last.value.rows) = 2
    /\ last.value.rows[2].timestamp = last.args.end_date
    /\ Cardinality(PointsOf(prices, last.args.currency_id)) = 3
    /\ \E p \in prices : p.currency_id # last.args.currency_id

Min(a, b) == IF a < b THEN a ELSE b

\* C9: get_latest with limit n >= 1 on a usable session returns min(n, number of
\* the instrument's stored points) rows, all of them stored points of that
\* instrument, in strictly descending timestamp order, and every point it leaves
\* out is older than every point it returns.
C9_Latest ==
    ( last.op = "get_latest" /\ last.outcome # PendingRollbackError )
    => /\ last.outcome = "ok"
       /\ LET rows == last.value.rows
              stored == PointsOf(prices, last.args.currency_id)
          IN  /\ Len(rows) = Min(last.args.limit, Cardinality(stored))
              /\ Range(rows) \subseteq stored
              /\ StrictlyOrdered(rows, TRUE)
              /\ \A p \in stored \ Range(rows), q \in Range(rows) :
                    p.timestamp < q.timestamp

\* The two newest of three points were returned.
C9_Witness ==
    /\ last.op = "get_latest"
    /\ last.outcome = "ok"
    /\ Len(last.value.rows) = 2
    /\ Cardinality(PointsOf(prices, last.args.currency_id)) = 3

\* C10: get_price_at_timestamp on a usable session returns the stored point with
\* exactly that (currency_id, timestamp) when there is one, and None otherwise.
C10_ExactMatch ==
    ( last.op = "get_price_at_timestamp" /\ last.outcome # PendingRollbackError )
    => /\ last.outcome = "ok"
       /\ IF HasKey(prices, last.args.currency_id, last.args.timestamp)
          THEN \E p \in prices :
                  /\ p.currency_id = last.args.currency_id
                  /\ p.timestamp = last.args.timestamp
                  /\ last.value = RowVal(p)
          ELSE last.value = None

\* None was returned although the instrument has an older and a newer point.
C10_Witness ==
    /\ last.op = "get_price_at_timestamp"
    /\ last.outcome = "ok"
    /\ last.value = None
    /\ \E p \in PointsOf(prices, last.args.currency_id) : p.timestamp < last.args.timestamp
    /\ \E p \in PointsOf(prices, last.args.currency_id) : p.timestamp > last.args.timestamp

\* C11: get_stats on a usable session, over a window holding no point of the
\* instrument, returns without an error count 0 and None for avg_price, max_price,
\* min_price and avg_volume.
C11_EmptyWindowStats ==
    ( /\ last.op = "get_stats"
      /\ last.outcome # PendingRollbackError
      /\ \A p \in PointsOf(prices, last.args.currency_id) :
            p.timestamp < last.args.start_date \/ p.timestamp > last.args.end_date )
    => /\ last.outcome = "ok"
       /\ last.value = StatsVal([ avg_price |-> None, max_price |-> None,
                                  min_price |-> None, avg_volume |-> None,
                                  count |-> 0 ])

\* An empty window of an instrument that has a point outside it, while another
\* instrument has a point inside it.
C11_Witness ==
    /\ last.op = "get_stats"
    /\ last.outcome = "ok"
    /\ last.value.stats.count = 0
    /\ PointsOf(prices, last.args.currency_id) # {}
    /\ \E p \in prices : /\ p.currency_id # last.args.currency_id
                         /\ last.args.start_date <= p.timestamp
                         /\ p.timestamp <= last.args.end_date

\* x is the number num / den.
IsNumber(x, num, den) == x # None /\ x.num * den = num * x.den

SumOf(S, name) == sum(column(order_by_timestamp(S, FALSE), name))

\* C12: get_stats equals the aggregate over the rows get_by_date_range returns
\* for the same arguments: their number, the mean of their closes, their greatest
\* high, their least low and the mean of their volumes.
C12_StatsAggregateRange ==
    ( last.op = "get_stats" /\ last.outcome = "ok" )
    => LET rows == Range(date_range_rows(prices, last.args.currency_id,
                                         last.args.start_date, last.args.end_date))
           stats == last.value.stats
       IN  /\ stats.count = Cardinality(rows)
           /\ rows # {} =>
                /\ IsNumber(stats.avg_price, SumOf(rows, "close"), Cardinality(rows))
                /\ IsNumber(stats.avg_volume, SumOf(rows, "volume"), Cardinality(rows))
                /\ \E p \in rows : /\ IsNumber(stats.max_price, p.high, 1)
                                   /\ \A q \in rows : q.high <= p.high
                /\ \E p \in rows : /\ IsNumber(stats.min_price, p.low, 1)
                                   /\ \A q \in rows : q.low >= p.low

\* ------------------------------------------------------------ chunk lifecycle
\* The state of the chunk of interval c: "retired" once it was dropped.
ChunkState(table, compressed_chunks, dropped_chunks, c) ==
    IF c \in chunks(table)
    THEN IF c \in compressed_chunks THEN "compressed" ELSE "open"
    ELSE IF c \in dropped_chunks THEN "retired" ELSE "none"

C13_Step(c) ==
    LET before == ChunkState(prices, compressed, dropped, c)
        after == ChunkState(prices', compressed', dropped', c)
    IN  /\ before = "compressed" => after \in {"compressed", "retired"}
        /\ c \in dropped => after = "retired"
        /\ c \in dropped' \ dropped => before = "compressed"

\* C13: a chunk moves only forward along open -> compressed -> retired: a
\* compressed chunk stays compressed or is retired, a chunk is retired only from
\* compressed, and once a chunk was retired it stays retired, with no point of its
\* interval in the table.
C13_ForwardOnly == [][\A c \in 0..MaxChunk : C13_Step(c)]_vars

\* Every timestamp chunk c can hold is more than age days before day t.
OlderThan(c, age, t) ==
    \A ts \in (c * chunk_time_interval)..(range_end(c) - 1) : t - ts > age

C14_AgedOnly ==
    /\ \A c \in compressed : OlderThan(c, compress_after, now)
    /\ \A c \in dropped : OlderThan(c, drop_after, now)

C14_PolicyOnly ==
    /\ compressed' \ compressed # {} =>
          /\ last'.op = "policy_compression"
          /\ OlderThan(last'.args.chunk, compress_after, now)
          /\ compressed' = compressed \cup { last'.args.chunk }
    /\ ( dropped' # dropped \/ ~(prices \subseteq prices') ) =>
          /\ last'.op = "policy_retention"
          /\ OlderThan(last'.args.chunk, drop_after, now)
          /\ dropped' = dropped \cup { last'.args.chunk }
    /\ last'.op \in {"create", "bulk_create"} /\ now' = now =>
          compressed' = compressed /\ dropped' = dropped /\ prices \subseteq prices'

C15_Write ==
    LET records == last'.args.records
    IN  ( /\ last'.op \in {"create", "bulk_create"}
          /\ now' = now
          /\ last'.outcome # PendingRollbackError
          /\ records # << >>
          /\ ~BatchConflict(prices, records)
          /\ \A i \in 1..Len(records) : \E r \in currencies : r.id = records[i].currency_id
          /\ \E i \in 1..Len(records) : chunk_of(records[i].timestamp) \in compressed )
        => /\ last'.outcome = "ok"
           /\ prices' = prices \cup Range(records)
           /\ \A i \in 1..Len(records) :
                LET p == records[i]
                IN  /\ rows_at(prices', p.currency_id, p.timestamp) = << p >>
                    /\ date_range_rows(prices', p.currency_id, p.timestamp,
                                       p.timestamp) = << p >>
                    /\ p \in Range(latest_rows(prices', p.currency_id,
                                               Cardinality(prices')))

HistoricalWriteRejected == "HistoricalWriteRejected"

C16_Write ==
    LET records == last'.args.records
    IN  ( /\ last'.op \in {"create", "bulk_create"}
          /\ now' = now
          /\ last'.outcome # PendingRollbackError
          /\ \E i \in 1..Len(records) : chunk_of(records[i].timestamp) \in dropped )
        => /\ last'.outcome = HistoricalWriteRejected
           /\ prices' = prices

\* C16: a create or bulk_create, on a usable session, with a point whose chunk was
\* retired raises HistoricalWriteRejected and adds no row.
C16_RetiredChunkRejectsWrite == [][C16_Write]_vars

C17_Compression ==
    ( last'.op = "policy_compression" /\ last'.outcome = "ok" /\ now' = now )
    => \/ prices' = prices      \* the same rows: every query gives the same result
       \/ \A currency_id \in CurrencyIds :
            /\ \A n \in 1..MaxLimit :
                  latest_rows(prices', currency_id, n) = latest_rows(prices, currency_id, n)
            /\ \A start_date, end_date \in ChunkTimestamps :
                  /\ date_range_rows(prices', currency_id, start_date, end_date)
                       = date_range_rows(prices, currency_id, start_date, end_date)
                  /\ stats_of(prices', currency_id, start_date, end_date)
                       = stats_of(prices, currency_id, start_date, end_date)
            /\ \A timestamp \in ChunkTimestamps :
                  rows_at(prices', currency_id, timestamp)
                    = rows_at(prices, currency_id, timestamp)

C18_EventuallyMaintained ==
    \A c \in 0..MaxChunk :
        /\ ( c \in chunks(prices) \ compressed /\ compression_due(c, now) )
              ~> ( c \in compressed )
        /\ ( c \in chunks(prices) /\ retention_due(c, now) )
              ~> ( c \in dropped )

C19_Step ==
    \A p \in prices :
        \/ p \in prices'
        \/ /\ last'.op = "policy_retention"
           /\ now' = now
           /\ chunk_of(p.timestamp) = last'.args.chunk
           /\ last'.args.chunk \in dropped'
           /\ \A q \in prices' : chunk_of(q.timestamp) # last'.args.chunk

\* C19: in every step -- a create, a bulk_create, a query, an update or a soft
\* delete of the instrument, a policy's job -- every stored point stays in the
\* table with its timestamp, open, high, low, close and volume, except the points
\* of the chunk the retention policy drops in that step, which all disappear.
C19_PointsImmutable == [][C19_Step]_vars

\* The instrument was deactivated, the retention policy dropped a chunk, and a
\* point of another chunk is still stored.
C19_Witness ==
    /\ last.op = "policy_retention"
    /\ prices # {}
    /\ \E r \in currencies : ~r.is_active

\* --------------------------------------------------------------- metrics
\* C20: for a series of two points or more calculate_metrics produces
\* daily_change = round(first.close - second.close, 2); for a series of one point
\* it produces neither daily_change nor daily_change_percent.
C20_DailyChange ==
    ( metrics # None /\ time_series # << >> )
    => IF Len(time_series) > 1
       THEN metrics.daily_change
              = round2(minus(time_series[1].close, time_series[2].close))
       ELSE metrics.daily_change = None /\ metrics.daily_change_percent = None

\* C21: for a series of two points or more, daily_change_percent is not produced
\* when the previous close is 0; when it is not 0, daily_change_percent is
\* produced and is (first.close - second.close) / second.close * 100, the
\* difference unrounded, rounded to 2 decimals.
C21_DailyChangePercent ==
    ( metrics # None /\ Len(time_series) > 1 )
    => LET latest == time_series[1].close
           previous == time_series[2].close
       IN  IF previous.num = 0
           THEN metrics.daily_change_percent = None
           ELSE metrics.daily_change_percent
                  = round2(times(divided(minus(latest, previous), previous), 100))

\* The average close, the greatest high and the least low over the first
\* min(n, Len(series)) points of the series, each rounded to 2 decimals.
WindowedStats(series, n) ==
    LET window == first_n(series, n)
    IN  [ avg  |-> round2(average(column(window, "close"))),
          high |-> round2(greatest(column(window, "high"))),
          low  |-> round2(least(column(window, "low"))) ]

\* C22: for a series of one point or more the weekly figures are the average
\* close, greatest high and least low over its first min(7, L) points and the
\* monthly figures the same over its first min(30, L) points.
C22_WindowedStats ==
    ( metrics # None /\ time_series # << >> )
    => /\ [ avg |-> metrics.weekly_avg, high |-> metrics.weekly_high,
            low |-> metrics.weekly_low ] = WindowedStats(time_series, 7)
       /\ [ avg |-> metrics.monthly_avg, high |-> metrics.monthly_high,
            low |-> metrics.monthly_low ] = WindowedStats(time_series, 30)

\* ------------------------------------------------- provider-facing side
\* The days of the reply the provider call returned.
DaysOf(reply) == get(reply.json, "Time Series (Digital Currency Daily)", EmptyDict)

EmptySeries == ValueError("No time series data available")

\* C23: calculate_metrics of a series of no points raises ValueError("No time
\* series data available") and returns no metrics; process_response of data
\* without time-series entries raises the same and returns no response.
C23_EmptySeries ==
    /\ ( metrics # None /\ time_series = << >> ) => metrics = EmptySeries
    /\ ( response # None /\ DaysOf(raw_data) = EmptyDict ) => response = EmptySeries

\* Both were called on nothing: calculate_metrics on the empty list and
\* process_response on a reply that has metadata and no days.
C23_Witness ==
    /\ time_series = << >>
    /\ metrics = EmptySeries
    /\ "Meta Data" \in DOMAIN raw_data.json
    /\ DaysOf(raw_data) = EmptyDict
    /\ response = EmptySeries

\* --------------------------------------------------------- session blocks
\* C24: a caller outside its SessionLocal() block holds no connection, however
\* the block was left, so when every caller is outside none is checked out; and
\* never more than pool_size + max_overflow connections are checked out.
C24_SessionsClosed ==
    /\ \A c \in Callers : scopes[c].at = "outside" => ~scopes[c].connection
    /\ checked_out(scopes) <= pool_size + max_overflow

\* The pool is exhausted by two callers while a caller that was aborted holding
\* a connection, or whose statement raised, is out of its block.
C24_Witness ==
    /\ checked_out(scopes) = pool_size + max_overflow
    /\ \E c \in Callers : /\ scopes[c].at = "outside"
                          /\ scopes[c].exit \in {"raised", "aborted"}

\* ------------------------------------------------------------ transactions
\* C25: a write that fails leaves no failed transaction on its session, so no
\* later call on the session is refused for an earlier failure: no call ends
\* with PendingRollbackError.
C25_FailureLeavesSessionClean == last.outcome # PendingRollbackError

\* ------------------------------------------------------------ indicators
\* Two rows have the same (currency_id, timestamp, indicator_type, parameters);
\* two absent parameters are the same.
SameIndicatorKey(a, b) ==
    /\ a.currency_id = b.currency_id
    /\ a.timestamp = b.timestamp
    /\ a.indicator_type = b.indicator_type
    /\ a.parameters = b.parameters

\* C26: computed_indicators holds at most one row per (currency_id, timestamp,
\* indicator_type, parameters), absent parameters included.
C26_OneIndicatorPerKey ==
    \A a, b \in indicators.rows : SameIndicatorKey(a, b) => a = b

\* ------------------------------------------------------------------ routes
\* C27: /home and /currency/{symbol} answer 400 with the error's text when the
\* provider call or the processing raises ValueError (an error message or a note
\* of the provider, a reply without days), 500 when the provider call raises
\* anything else, and 200 only when nothing failed; /currency/{symbol} calls the
\* provider with symbol and market in upper case.
C27_RouteFailures ==
    http # None =>
      /\ IF raw_data.status_code >= 400
         THEN http.reply.status_code = 500
         ELSE IF "Error Message" \in DOMAIN raw_data.json
         THEN http.reply = [ status_code |-> 400,
                             detail |-> "API Error: " \o raw_data.json["Error Message"] ]
         ELSE IF "Note" \in DOMAIN raw_data.json
         THEN http.reply = [ status_code |-> 400,
                             detail |-> "API Rate Limit: " \o raw_data.json["Note"] ]
         ELSE IF DaysOf(raw_data) = EmptyDict
         THEN http.reply = [ status_code |-> 400,
                             detail |-> "No time series data available" ]
         ELSE http.reply.status_code = 200
      /\ http.route = "/currency/{symbol}" =>
           /\ http.called_with.symbol \in { upper(input[1]) : input \in RouteInputs }
           /\ http.called_with.market \in { upper(input[2]) : input \in RouteInputs }
           /\ \A i \in 1..Len(http.called_with.symbol) :
                 http.called_with.symbol[i] \in {"B", "T", "C", "E", "H"}
           /\ \A i \in 1..Len(http.called_with.market) :
                 http.called_with.market[i] \in {"U", "S", "D"}

\* GET /currency/btc?market=usd in some letter-casing, answered 400 for a reply
\* that has metadata and no days.
C27_Witness ==
    /\ http # None
    /\ http.route = "/currency/{symbol}"
    /\ http.called_with = [symbol |-> <<"B", "T", "C">>, market |-> <<"U", "S", "D">>]
    /\ "Meta Data" \in DOMAIN raw_data.json
    /\ http.reply = [status_code |-> 400, detail |-> "No time series data available"]

\* ------------------------------------------------------------ window stats
\* C28: get_stats reports an absent aggregate only for an empty window: when its
\* count is positive, avg_price, max_price, min_price and avg_volume are all
\* numbers, a window whose volumes are all 0 included.
C28_StatsNullOnlyWhenEmpty ==
    ( last.op = "get_stats" /\ last.outcome = "ok" /\ last.value.stats.count > 0 )
    => /\ last.value.stats.avg_price # None
       /\ last.value.stats.max_price # None
       /\ last.value.stats.min_price # None
       /\ last.value.stats.avg_volume # None

\* -------------------------------------------------- deactivated instruments
\* The deactivated rows of the upper-cased (symbol, market) pair.
Deactivated(table, symbol, market) ==
    { r \in table : r.symbol = upper(symbol) /\ r.market = upper(market) /\ ~r.is_active }

\* A lookup of a deactivated pair returns its row and writes nothing.
C29_Lookup ==
    /\ ( /\ last'.op = "get_or_create"
         /\ last'.outcome # PendingRollbackError
         /\ ~last'.args.interleaved )
       => \A r \in Deactivated(currencies, last'.args.symbol, last'.args.market) :
             /\ last'.outcome = "ok"
             /\ last'.value = IntVal(r.id)
             /\ currencies' = currencies
    /\ ( last'.op = "get_by_symbol_and_market" /\ last'.outcome = "ok" )
       => \A r \in Deactivated(currencies, last'.args.symbol, last'.args.market) :
             /\ last'.value = RowVal(r)
             /\ currencies' = currencies

\* get_all(active_only=True) lists no deactivated row.
C29_Listing ==
    ( last'.op = "get_all" /\ last'.outcome = "ok" /\ last'.args.active_only )
    => \A i \in 1..Len(last'.value.rows) :
          /\ last'.value.rows[i] \in currencies'
          /\ last'.value.rows[i].is_active

\* Points of a deactivated instrument, none of them stored yet and no two for the
\* same timestamp, are stored.
C29_Points ==
    ( /\ last'.op \in {"create", "bulk_create"}
      /\ last' # last
      /\ last'.outcome # PendingRollbackError
      /\ last'.args.records # << >>
      /\ \A i \in 1..Len(last'.args.records) :
            LET record == last'.args.records[i]
            IN  /\ \E r \in currencies : r.id = record.currency_id /\ ~r.is_active
                /\ ~\E p \in prices : /\ p.currency_id = record.currency_id
                                      /\ p.timestamp = record.timestamp
                /\ \A j \in 1..Len(last'.args.records) :
                      last'.args.records[j].timestamp = record.timestamp => j = i )
    => /\ last'.outcome = "ok"
       /\ \A i \in 1..Len(last'.args.records) : last'.args.records[i] \in prices'
       /\ currencies' = currencies

\* C29: once delete deactivated an instrument, get_or_create and
\* get_by_symbol_and_market for its pair return the same row (its id), create
\* no row and leave is_active False; get_all(active_only=True) does not list
\* it; create and bulk_create of its price points still succeed.
C29_DeactivatedStillResolves == [][C29_Lookup /\ C29_Listing /\ C29_Points]_vars

\* get_or_create returned the id of a deactivated instrument that has a point.
C29_Witness ==
    /\ last.op = "get_or_create"
    /\ last.via = "select"
    /\ last.outcome = "ok"
    /\ \E r \in currencies : /\ ~r.is_active
                             /\ last.value = IntVal(r.id)
                             /\ \E p \in prices : p.currency_id = r.id

\* ------------------------------------------------------- order of the days
\* The day a "YYYY-MM-DD" key names, as a number that grows with the calendar.
Ordinal(date) ==
    int_of(SubSeq(date, 1, 4)) * 372 + int_of(SubSeq(date, 6, 7)) * 31
        + int_of(SubSeq(date, 9, 10))

\* The point of an entry <<date, values>> of the provider's dict.
PointOf(entry) ==
    TimeSeriesData(entry[1],
                   float(get(entry[2], "1. open", zero)),
                   float(get(entry[2], "2. high", zero)),
                   float(get(entry[2], "3. low", zero)),
                   float(get(entry[2], "4. close", zero)),
                   float(get(entry[2], "5. volume", zero)))

\* C30: whatever the order of the entries in the provider's dict, the latest
\* price, volume and date of a processed response are those of the entry with
\* the greatest date, and recent_data holds the min(10, L) entries with the
\* greatest dates, the latest first, in strictly descending order of date.
C30_OrderIndependent ==
    ( response # None /\ DaysOf(raw_data) # EmptyDict )
    => LET entries == { PointOf(DaysOf(raw_data)[i]) : i \in 1..Len(DaysOf(raw_data)) }
           L == Cardinality(entries)
           recent == response.recent_data
       IN  /\ \E latest \in entries :
                /\ \A other \in entries : Ordinal(other.date) <= Ordinal(latest.date)
                /\ response.metrics.latest_price = latest.close
                /\ response.metrics.latest_volume = latest.volume
                /\ response.metrics.latest_date = latest.date
           /\ Len(recent) = IF L < recent_days THEN L ELSE recent_days
           /\ \A i \in 1..Len(recent) : recent[i] \in entries
           /\ \A i \in 1..(Len(recent) - 1) :
                 Ordinal(recent[i].date) > Ordinal(recent[i + 1].date)
           /\ \A other \in entries :
                 ( \A i \in 1..Len(recent) : recent[i] # other )
                 => Ordinal(other.date) < Ordinal(recent[Len(recent)].date)

\* A reply of more than ten days whose first entry is neither its latest nor its
\* earliest day was processed.
C30_Witness ==
    /\ response # None
    /\ Len(DaysOf(raw_data)) > recent_days
    /\ Len(response.recent_data) = recent_days
    /\ \E i, j \in 2..Len(DaysOf(raw_data)) :
          /\ Ordinal(DaysOf(raw_data)[i][1]) > Ordinal(DaysOf(raw_data)[1][1])
          /\ Ordinal(DaysOf(raw_data)[j][1]) < Ordinal(DaysOf(raw_data)[1][1])
    /\ response.metrics.latest_date # DaysOf(raw_data)[1][1]

====
